---- MODULE Spec2Model ----
(***************************************************************************)
(* State-machine model of the bar-driven backtest core:                    *)
(*   - the task scheduler (register_task / should_trigger /                *)
(*     execute_pending_tasks) and the lifecycle hooks,                     *)
(*   - the per-bar loop of the compiled UserStrategy (next_open / next),   *)
(*   - the order intents of jq_api (order, order_value, order_target,      *)
(*     order_target_value, order_target_percent) over a broker ledger.     *)
(* Money is counted in cents, prices in cents per share, rates in 1/10000. *)
(***************************************************************************)
EXTENDS Integers, Sequences, FiniteSets, TLC

\* ------------------------------------------------------------------------
\* Bounds of the model
\* ------------------------------------------------------------------------
MaxDay == 2
MaxTasks == 2
MaxHooks == 1
MaxOrdersPerBar == 1
MaxOrderDay == 2
MaxCalls == 4
MaxRows == 3

\* ------------------------------------------------------------------------
\* Simulated calendar and clock.  A timestamp is [date, secs]: date is the
\* number of days after Sunday 2024-09-29, secs the second of the day.
\* ------------------------------------------------------------------------
NoDate == 0 - 1
NoDt == [date |-> NoDate, secs |-> 0]

Dates == 0..MaxDay

\* Start dates a run is asked for; bars before the start date are warm-up.
StartDates == {0, 1}

\* datetime.weekday(): Monday is 0.  Day 0 is a Sunday.
Weekday(d) == (6 + d) % 7

\* datetime.day: day 0 is September 29th, day 2 is October 1st.
DayOfMonth(d) == IF d <= 1 THEN 29 + d ELSE d - 1

Hour(dt) == dt.secs \div 3600
Minute(dt) == (dt.secs % 3600) \div 60

T0929 == 9 * 3600 + 29 * 60
T0930 == 9 * 3600 + 30 * 60
T0931 == 9 * 3600 + 31 * 60

\* Second-of-day stamps a minute bar can carry.
BarTimes == {T0929, T0930, T0931}

MinuteFreqs == {"1min", "minute", "1m", "intraday"}
\* Frequencies a run is asked for: daily bars, one-minute bars, five-minute bars.
ApiFrequencies == {"daily", "minute", "5min"}

\* ------------------------------------------------------------------------
\* Scheduled tasks
\* ------------------------------------------------------------------------
\* Registrations a strategy makes: frequency, "HH:MM" and whether the
\* registered callback raises when invoked.
TaskKinds ==
    { [freq |-> "daily",   time |-> <<9, 30>>, raises |-> FALSE],
      [freq |-> "daily",   time |-> <<9, 30>>, raises |-> TRUE],
      [freq |-> "daily",   time |-> <<9, 31>>, raises |-> FALSE],
      [freq |-> "weekly",  time |-> <<9, 30>>, raises |-> FALSE],
      [freq |-> "monthly", time |-> <<9, 30>>, raises |-> FALSE],
      [freq |-> "yearly",  time |-> <<9, 30>>, raises |-> FALSE] }

VARIABLES
    pc,             \* position of the run: compile, initialize, bar_start, after_open, broker_done, bar_done, done
    fill_price,     \* options["fill_price"]
    api_frequency,  \* options["api_frequency"]
    coo,            \* cheat_on_open of the Cerebro instance
    tasks,          \* jq_state["_scheduler"]["tasks"]
    hooks,          \* jq_state["_scheduler"]["lifecycle"]: number of callbacks per hook
    current_dt,     \* jq_state["current_dt"]
    bar,            \* the bar being processed: date, secs, open, close; first is the stamp of its date's first bar
    prev_close,     \* close of the bar before it (data.close[-1])
    user_start,     \* jq_state["user_start"]
    in_warmup,      \* jq_state["in_warmup"]
    run_on_open,    \* UserStrategy._run_on_open: "unset", "yes" or "no"
    handled_today,  \* UserStrategy._handled_today
    after_fired_date, \* jq_state["_after_fired_date"]
    corporate_actions, \* jq_state["corporate_actions"]: set of [date, delta]
    cash,           \* broker.getcash(), in cents
    position,       \* strategy.position.size
    pending,        \* orders submitted to the broker and not yet executed
    daily_bought,   \* jq_state["_daily_bought"]: date -> shares bought on it
    blocked_orders, \* records the latest operation appended to jq_state["blocked_orders"]
    log,            \* entries the latest operation appended to jq_state["log"]
    inHandle,       \* the latest handler ended by calling the user's handle_data
    ordersThisBar,  \* order intents the user code has called for the present bar
    lastOrder,      \* what the latest order intent did
    fires,          \* per task: invocations while current_dt kept its present value
    dayFires,       \* per task: invocations on the present date
    hookCalls,      \* per hook: invocations of each registered callback on the present date
    handleCalls,    \* invocations of handle_data for the present bar
    ticksAtDt,      \* execute_pending_tasks calls while current_dt kept its present value
    lastTick,       \* what execute_pending_tasks did in the latest operation, if it was called
    pos,            \* a portfolio.Position: total_amount, closeable_amount, today_amount, and what was bought and sold on the present day
    cache,          \* a MinuteAggregationCache with the files of one key: persist, data, meta, last_status, returned; asked and at_load are the argument and the files of the latest load
    quote,          \* options slippage_perc and price_tick, a data line's open and close, and what price_context last returned for them
    shared,         \* backtest runs side by side in one process: the module-level g of the earlier engine, and for each run its engine, what it wrote into each piece of its state and what each piece holds now
    agg,            \* the latest aggregate_minute_dataframe call on minute rows: the rows it was given, in their order, and the daily bars it returned
    snap,           \* jq_state's current_dt and _current_data_cache, and the CurrentDataProxy the strategy holds
    userrun,        \* a run of a strategy whose callbacks may raise: the strategy class, the handler it is at, the bars done, the callbacks invoked and raised so far, the error lines logged, and how the run ended
    recorded,       \* the latest record() call: whether it was made in warm-up and what it appended to jq_state["records"]
    lookback,       \* the latest compute_lookback_days call: the pipeline, the frequency, the options and the periods detected in the strategy code, the lookback after the frequency default, and what it returned
    backtest,       \* a run_backtest call: its arguments, the pipeline stage it is at, the stages entered so far, ctx.strat, and what it returned
    race,           \* runs working on one cache key at the same time: the key's payload and metadata files and how far each run is in its load and save
    prep            \* the latest _prepare_minute_cache call: the cache directory, the history frames it was given, jq_state["minute_daily_cache"], the metrics and diagnostics it left

optVars == <<fill_price, api_frequency, coo, user_start, corporate_actions>>
regVars == <<hooks>>
clockVars == <<current_dt, bar, prev_close, in_warmup, run_on_open, handled_today,
               after_fired_date>>
ledgerVars == <<cash, position, pending, daily_bought>>
intentVars == <<blocked_orders, ordersThisBar, lastOrder>>
countVars == <<dayFires, hookCalls, handleCalls, ticksAtDt>>
lateVars == <<userrun, shared, agg, snap>>
runVars == <<prep, race, backtest, lookback, recorded, lateVars>>
sideVars == <<pos, cache, quote, runVars>>
engineVars == <<pc, optVars, regVars, tasks, clockVars, ledgerVars, intentVars, log, inHandle,
                fires, countVars, lastTick>>
settledVars == <<engineVars, pos, cache, quote, prep, race, backtest, lookback, recorded>>
besides_userrun == <<settledVars, shared, agg, snap>>
besides_shared == <<settledVars, userrun, agg, snap>>
besides_agg == <<settledVars, userrun, shared, snap>>
besides_snap == <<settledVars, userrun, shared, agg>>

vars == <<pc, optVars, regVars, tasks, clockVars, ledgerVars, intentVars, log, inHandle,
          fires, countVars, lastTick, sideVars>>

NoTick == [dt |-> NoDt, before |-> <<>>, invoked |-> {}, errors |-> 0, raised |-> FALSE]
NoOrder == [intent |-> "none"]
NoBar == [date |-> NoDate, secs |-> 0, first |-> 0, open |-> 0, close |-> 0]
NoHookCalls == [before_trading_start |-> 0, after_trading_end |-> 0]

\* Position.__init__: nothing held; hist lists the calls made since.
NewPosition ==
    [total_amount |-> 0, closeable_amount |-> 0, today_amount |-> 0, hist |-> <<>>]

NoMtime == 0 - 1

\* No frame: what load returns when it returns None.
NoFrame == [rows |-> "none", index |-> "range"]

\* No successful save whose files are still as it left them.
NoKept == [valid |-> FALSE, frame |-> NoFrame, mtime |-> NoMtime, loads |-> 0]

\* MinuteAggregationCache.__init__ over an empty cache directory.
NewCache ==
    [persist |-> TRUE, data |-> "absent", meta |-> "absent", cached_mtime |-> NoMtime,
     payload |-> "none",
     last_status |-> "none", returned |-> FALSE, asked |-> NoMtime,
     at_load |-> [data |-> "absent", meta |-> "absent", cached_mtime |-> NoMtime],
     got |-> NoFrame, raised |-> FALSE, op |-> "init", kept |-> NoKept]

\* The securities of a run, in the order of ctx.symbols.
ctx_symbols == <<"000001", "600000">>
Symbols == {ctx_symbols[k] : k \in 1..Len(ctx_symbols)}

\* The payload and metadata files of a key that was never saved.
NoFiles == [data |-> "absent", meta |-> "absent", cached_mtime |-> NoMtime, payload |-> "none"]

\* No record: the symbol was skipped or not reached.
NoRecord == [load_status |-> "none", save_status |-> "none"]

NoMetrics == [hits |-> 0, misses |-> 0, mismatches |-> 0, builds |-> 0, saves |-> 0, errors |-> 0]

\* No diagnostics["minute_cache"] written.
NoDiagnostics == [written |-> FALSE, errors |-> 0, anomalies |-> {}]

\* Before any _prepare_minute_cache call, over an empty cache directory.
NewPrep ==
    [persist |-> FALSE,
     last_status |-> "none",
     store |-> [s \in Symbols |-> NoFiles],
     before |-> [s \in Symbols |-> NoFiles],
     history |-> [s \in Symbols |-> "none"],
     minute_cache |-> [s \in Symbols |-> NoFrame],
     metrics |-> NoMetrics,
     records |-> [s \in Symbols |-> NoRecord],
     diagnostics |-> NoDiagnostics,
     log |-> <<>>,
     raised |-> FALSE,
     op |-> "init"]

\* The runs that share a cache directory.
Runs == {"run1", "run2"}

\* No metadata file.
NoMeta == [by |-> "none", source_mtime |-> NoMtime]

\* A run that has not yet looked up the key.
NewRun == [pc |-> "load", source_mtime |-> NoMtime, load_status |-> "none",
           meta_read |-> "none", got |-> "none"]

\* An empty cache directory and two runs about to look up the same key.
NewRace == [payload |-> "none", meta |-> NoMeta, runs |-> [r \in Runs |-> NewRun]]

\* Nothing returned yet.
NoResult ==
    [metrics |-> "none", curves |-> "none", trades |-> "none", orders |-> "none",
     blocked_orders |-> "none", log |-> "none"]

\* No run_backtest call made yet.
NewBacktest ==
    [pc |-> "idle", symbol |-> "", frequency |-> "daily", pipeline |-> "none", trace |-> <<>>,
     strat |-> FALSE, raised_in |-> "none", error |-> "none", escaped |-> FALSE,
     result |-> NoResult]

\* An option that is not in jq_state["options"].
NoOption == 0 - 1

\* options["history_lookback_days"] not set; numbers are kept in tenths.
NoLookbackOption == [kind |-> "unset", tenths |-> 0]

\* No compute_lookback_days call made yet.
NewLookback ==
    [called |-> FALSE, pipeline |-> "none", frequency |-> "daily",
     history_lookback_days |-> NoLookbackOption, daily_default_lookback_days |-> NoOption,
     minute_default_lookback_days |-> NoOption, minute_bars_per_day |-> NoOption,
     jq_auto_history_preload |-> TRUE, periods |-> {}, user_set |-> FALSE, adjusted |-> 0,
     returned |-> 0]

\* aggregate_minute_dataframe not called on minute rows yet.
NewAgg == [called |-> FALSE, rows |-> <<>>, daily |-> <<>>]

\* jq_state as build_jq_compat_env leaves it for get_current_data: current_dt
\* None and no _current_data_cache yet (an empty cache reads the same: no
\* __marker__, no snapshots).  snapshots maps each security to the current_dt
\* its memoized snapshot was built at; proxy tells whether the strategy holds
\* a CurrentDataProxy; got is the snapshot the latest lookup returned.
NoSnapshots == [sec \in Symbols |-> NoDate]
NewSnap ==
    [current_dt |-> NoDate, marker |-> NoDate, snapshots |-> NoSnapshots,
     proxy |-> FALSE, op |-> "none",
     got |-> [security |-> "none", built_at |-> NoDate, asked_at |-> NoDate]]

\* The pieces of run state user code writes to.
StateFields == {"tasks", "hooks", "options", "log", "blocked_orders", "_daily_bought", "g"}

\* No run in the process, and nothing in the module-level g.
NewSharedRun == [engine |-> "none", holds |-> [f \in StateFields |-> {}], wrote |-> {}]
NewShared == [module_g |-> {}, runs |-> [r \in {"run1", "run2"} |-> NewSharedRun]]

\* No strategy run started yet.
NewUserRun ==
    [strategy |-> "none", fill_price |-> "open", pc |-> "idle", bars |-> 0,
     invoked |-> <<>>, raised |-> <<>>, log |-> <<>>, result |-> "none"]

\* No record() call made yet.
NoRecorded == [called |-> FALSE, in_warmup |-> FALSE, appended |-> <<>>]

\* No price context asked for yet.
NoContext ==
    [called |-> FALSE, fill_price |-> "open", slippage_perc |-> 0, base_price |-> 0,
     exec_buy_price |-> 0, exec_sell_price |-> 0,
     asked |-> [open |-> 0, close |-> 0, price_tick |-> 1]]

\* The options' defaults (no slippage, a tick of one cent) and no data yet.
NewQuote ==
    [slippage_perc |-> 0, price_tick |-> 1, open |-> 0, close |-> 0, ctx |-> NoContext]

\* The state build_jq_compat_env and compile_user_strategy leave behind.
Init ==
    /\ pc = "compile"
    /\ fill_price = "open"
    /\ api_frequency = "daily"
    /\ coo = TRUE
    /\ tasks = <<>>
    /\ hooks = NoHookCalls
    /\ current_dt = NoDt
    /\ bar = NoBar
    /\ prev_close = 0
    /\ user_start = 0
    /\ in_warmup = FALSE
    /\ run_on_open = "unset"
    /\ handled_today = FALSE
    /\ after_fired_date = NoDate
    /\ corporate_actions = {}
    /\ cash = 0
    /\ position = 0
    /\ pending = <<>>
    /\ daily_bought = <<>>
    /\ blocked_orders = <<>>
    /\ log = <<>>
    /\ inHandle = FALSE
    /\ ordersThisBar = 0
    /\ lastOrder = NoOrder
    /\ fires = <<>>
    /\ dayFires = <<>>
    /\ hookCalls = NoHookCalls
    /\ handleCalls = 0
    /\ ticksAtDt = 0
    /\ lastTick = NoTick
    /\ pos = NewPosition
    /\ cache = NewCache
    /\ quote = NewQuote
    /\ prep = NewPrep
    /\ race = NewRace
    /\ backtest = NewBacktest
    /\ lookback = NewLookback
    /\ recorded = NoRecorded
    /\ userrun = NewUserRun
    /\ snap = NewSnap
    /\ agg = NewAgg
    /\ shared = NewShared

\* ------------------------------------------------------------------------
\* matcher.should_trigger
\* ------------------------------------------------------------------------
\* The weekly test made against Tuesday, as if Monday were weekday 1.
should_trigger_MondayIsOne(dt, task) ==
    IF Hour(dt) # task.time[1] \/ Minute(dt) # task.time[2] THEN FALSE
    ELSE IF task.freq = "daily" THEN TRUE
    ELSE IF task.freq = "weekly" THEN Weekday(dt.date) = 1
    ELSE IF task.freq = "monthly" THEN DayOfMonth(dt.date) = 1
    ELSE FALSE

should_trigger(dt, task) ==
    IF Hour(dt) # task.time[1] \/ Minute(dt) # task.time[2] THEN FALSE
    ELSE IF task.freq = "daily" THEN TRUE
    ELSE IF task.freq = "weekly" THEN Weekday(dt.date) = 0
    ELSE IF task.freq = "monthly" THEN DayOfMonth(dt.date) = 1
    ELSE FALSE

\* ------------------------------------------------------------------------
\* executor.execute_pending_tasks
\* ------------------------------------------------------------------------
\* The loop body without the last_trigger assignment.
InvokeTask_NoStamp(acc, dt, i) ==
    IF acc.tasks[i].raises
    THEN [acc EXCEPT !.invoked = @ \cup {i}, !.errors = @ + 1]
    ELSE [acc EXCEPT !.invoked = @ \cup {i}]

\* The loop body without the try/except around the callback.
InvokeTask_NoCatch(acc, dt, i) ==
    IF acc.tasks[i].raises
    THEN [acc EXCEPT !.invoked = @ \cup {i}, !.raised = TRUE]
    ELSE [acc EXCEPT !.tasks[i].last_trigger = dt, !.invoked = @ \cup {i}]

\* The body of the loop for one due task: call the callback, then record the
\* trigger time; a raising callback skips the assignment and is logged.
InvokeTask(acc, dt, i) ==
    IF acc.tasks[i].raises
    THEN [acc EXCEPT !.invoked = @ \cup {i}, !.errors = @ + 1]
    ELSE [acc EXCEPT !.tasks[i].last_trigger = dt, !.invoked = @ \cup {i}]

RECURSIVE ExecFrom(_, _, _)
ExecFrom(acc, dt, i) ==
    IF i > Len(acc.tasks) \/ acc.raised THEN acc
    ELSE IF should_trigger(dt, acc.tasks[i]) /\ acc.tasks[i].last_trigger # dt
         THEN ExecFrom(InvokeTask(acc, dt, i), dt, i + 1)
         ELSE ExecFrom(acc, dt, i + 1)

execute_pending_tasks(ts, dt) ==
    ExecFrom([tasks |-> ts, invoked |-> {}, errors |-> 0, raised |-> FALSE], dt, 1)

\* What a tick leaves behind for inspection.
TickRecord(ts, dt, res) ==
    [dt |-> dt, before |-> [i \in 1..Len(ts) |-> ts[i].last_trigger],
     invoked |-> res.invoked, errors |-> res.errors, raised |-> res.raised]

Bump(counts, invoked) ==
    [i \in 1..Len(counts) |-> IF i \in invoked THEN counts[i] + 1 ELSE counts[i]]

Zeros(n) == [i \in 1..n |-> 0]

TaskErrorLog(n) == [k \in 1..n |-> "[Scheduler] Task error"]

\* ------------------------------------------------------------------------
\* Strategy set-up: module-level code, engine set-up, initialize(context)
\* ------------------------------------------------------------------------
set_option_fill_price(v) ==
    /\ pc \in {"compile", "initialize"}
    /\ fill_price' = v
    /\ log' = <<"[set_option]">>
    /\ UNCHANGED <<sideVars, pc, api_frequency, coo, user_start, corporate_actions, regVars, tasks,
                   clockVars, ledgerVars, intentVars, inHandle, fires, countVars, lastTick>>

\* run_backtest after compile_user_strategy: user_start, api_frequency, the
\* Cerebro instance, whose cheat_on_open is read from the options now, and
\* the starting cash; the data pipeline attaches the corporate actions.
CreateCerebro(start, frequency, startCash, actions) ==
    /\ pc = "compile"
    /\ pc' = "initialize"
    /\ user_start' = start
    /\ api_frequency' = frequency
    /\ coo' = (fill_price = "open")
    /\ cash' = startCash
    /\ corporate_actions' = actions
    /\ log' = <<>>
    /\ UNCHANGED <<sideVars, fill_price, regVars, tasks, clockVars, position, pending, daily_bought,
                   intentVars, inHandle, fires, countVars, lastTick>>

register_task(freq, time, raises) ==
    /\ pc = "initialize"
    /\ Len(tasks) < MaxTasks
    /\ tasks' = Append(tasks, [freq |-> freq, time |-> time, raises |-> raises,
                               last_trigger |-> NoDt])
    /\ fires' = Append(fires, 0)
    /\ dayFires' = Append(dayFires, 0)
    /\ UNCHANGED <<sideVars, pc, optVars, regVars, clockVars, ledgerVars, intentVars, inHandle,
                   hookCalls, handleCalls, ticksAtDt, lastTick>>

run_daily ==
    \E k \in TaskKinds :
        /\ k.freq = "daily"
        /\ register_task("daily", k.time, k.raises)
        /\ log' = <<"[Scheduler] register daily">>

run_weekly ==
    \E k \in TaskKinds :
        /\ k.freq = "weekly"
        /\ register_task("weekly", k.time, k.raises)
        /\ log' = <<"[Scheduler] register weekly">>

run_monthly ==
    \E k \in TaskKinds :
        /\ k.freq = "monthly"
        /\ register_task("monthly", k.time, k.raises)
        /\ log' = <<"[Scheduler] register monthly">>

\* register_task called with a frequency none of run_daily/weekly/monthly uses.
register_other ==
    \E k \in TaskKinds :
        /\ k.freq \notin {"daily", "weekly", "monthly"}
        /\ register_task(k.freq, k.time, k.raises)
        /\ log' = <<>>

register_lifecycle_task(hook) ==
    /\ pc = "initialize"
    /\ hooks[hook] < MaxHooks
    /\ hooks' = [hooks EXCEPT ![hook] = @ + 1]
    /\ log' = <<>>
    /\ UNCHANGED <<sideVars, pc, optVars, tasks, clockVars, ledgerVars, intentVars, inHandle, fires,
                   countVars, lastTick>>

before_trading_start == register_lifecycle_task("before_trading_start")

after_trading_end == register_lifecycle_task("after_trading_end")

\* ------------------------------------------------------------------------
\* Ledger helpers
\* ------------------------------------------------------------------------
Max(a, b) == IF a >= b THEN a ELSE b
Min(a, b) == IF a <= b THEN a ELSE b
CeilDiv(a, b) == (a + b - 1) \div b

\* Option defaults of order_value: lot, commission rate (per 10000 of the
\* gross), minimum commission and stamp duty (per 10000 of the gross).
Lot == 100
CommissionRate == 3
MinCommission == 5 * 100
StampDuty == 10

\* max(gross * commission_rate, min_commission), charged in whole cents.
Commission(gross) == Max(CeilDiv(gross * CommissionRate, 10000), MinCommission)

BoughtOn(map, d) == IF d \in DOMAIN map THEN map[d] ELSE 0

\* Keys of the today-bought map older than two days before the date go.
PruneBought(map, d) == [k \in {x \in DOMAIN map : x >= d - 2} |-> map[k]]

\* utils.price_context for slippage_perc = 0: both execution prices are the
\* base price, the bar's open or close as fill_price says.
price_context(b) ==
    LET base == IF fill_price = "close" THEN b.close ELSE b.open
    IN [base_price |-> base, exec_buy_price |-> base, exec_sell_price |-> base]

\* One fill applied to the ledger: a buy the cash cannot cover is rejected.
ApplyFill(led, o, px, today) ==
    LET price == IF o.side = "BUY" THEN px.exec_buy_price ELSE px.exec_sell_price
        gross == o.size * price
    IN IF o.side = "BUY"
       THEN IF gross + Commission(gross) > led.cash THEN led
            ELSE [cash |-> led.cash - gross - Commission(gross),
                  position |-> led.position + o.size,
                  bought |-> [k \in DOMAIN led.bought \cup {today} |->
                                 IF k = today THEN BoughtOn(led.bought, today) + o.size
                                 ELSE led.bought[k]]]
       ELSE [cash |-> led.cash + gross - Commission(gross) - CeilDiv(gross * StampDuty, 10000),
             position |-> led.position - o.size,
             bought |-> led.bought]

RECURSIVE ApplyFills(_, _, _, _)
ApplyFills(led, orders, px, today) ==
    IF orders = <<>> THEN led
    ELSE ApplyFills(ApplyFill(led, Head(orders), px, today), Tail(orders), px, today)

\* ------------------------------------------------------------------------
\* The per-bar loop
\* ------------------------------------------------------------------------
Later(a, b) == a.date > b.date \/ (a.date = b.date /\ a.secs > b.secs)

\* Timestamps the data feed can deliver after the bar just processed: a
\* daily feed has one bar per date, an intraday feed any later stamp.
FeedStamps(lastDate) ==
    IF api_frequency = "daily"
    THEN { b \in [date : 0..lastDate, secs : {0}] : b.date > bar.date }
    ELSE { b \in [date : 0..lastDate, secs : BarTimes] : Later(b, bar) }

\* Cerebro advances the feed, which ends by lastDate, by one bar with prices
\* drawn from P.
NextBar(P, lastDate) ==
    /\ pc \in {"initialize", "bar_done"}
    /\ \E b \in FeedStamps(lastDate), o \in P, c \in P :
        /\ bar' = [date |-> b.date, secs |-> b.secs, open |-> o, close |-> c,
                   first |-> IF b.date # bar.date THEN b.secs ELSE bar.first]
        /\ dayFires' = IF b.date # bar.date THEN Zeros(Len(tasks)) ELSE dayFires
        /\ hookCalls' = IF b.date # bar.date THEN NoHookCalls ELSE hookCalls
    /\ prev_close' = bar.close
    /\ pc' = "bar_start"
    /\ handleCalls' = 0
    /\ ordersThisBar' = 0
    /\ inHandle' = FALSE
    /\ log' = <<>>
    /\ blocked_orders' = <<>>
    /\ lastOrder' = NoOrder
    /\ lastTick' = NoTick
    /\ UNCHANGED <<sideVars, optVars, regVars, tasks, current_dt, in_warmup, run_on_open, handled_today,
                   after_fired_date, ledgerVars, fires, ticksAtDt>>

\* The end of the feed.
Finish ==
    /\ pc = "bar_done"
    /\ pc' = "done"
    /\ log' = <<>>
    /\ blocked_orders' = <<>>
    /\ lastOrder' = NoOrder
    /\ lastTick' = NoTick
    /\ inHandle' = FALSE
    /\ UNCHANGED <<sideVars, optVars, regVars, tasks, clockVars, ledgerVars, ordersThisBar, fires,
                   countVars>>

\* current_dt as next_open and next compute it from the bar.
BarDt(b) ==
    IF api_frequency \in MinuteFreqs THEN [date |-> b.date, secs |-> b.secs]
    ELSE [date |-> b.date, secs |-> T0930]

\* Warm-up lines written on every bar, whether in_warmup changed or not.
WarmupLog_EveryBar(before, now) ==
    IF now THEN <<"[warmup] enter_warmup">> ELSE <<"[warmup] leave_warmup">>

WarmupLog(before, now) ==
    (IF now /\ ~before THEN <<"[warmup] enter_warmup">> ELSE <<>>)
    \o (IF ~now /\ before THEN <<"[warmup] leave_warmup">> ELSE <<>>)

\* trigger_lifecycle_tasks: every callback registered on the hook is called.
trigger_lifecycle_tasks(calls, hook) ==
    IF hooks[hook] > 0 THEN [calls EXCEPT ![hook] = @ + 1] ELSE calls

\* Orders _run_handle submits for the corporate actions dated today.
RECURSIVE CorporateOrders(_)
CorporateOrders(evs) ==
    IF evs = {} THEN <<>>
    ELSE LET ev == CHOOSE e \in evs : \A f \in evs : e.delta <= f.delta
             rest == CorporateOrders(evs \ {ev})
         IN IF ev.delta > 0
            THEN <<[side |-> "BUY", size |-> ev.delta, via |-> "corporate_action"]>> \o rest
            ELSE IF ev.delta < 0
            THEN <<[side |-> "SELL", size |-> 0 - ev.delta, via |-> "corporate_action"]>> \o rest
            ELSE rest

\* The handler carries current_dt over to a new value or keeps it.
KeepOrReset(dt, counts) == IF dt = current_dt THEN counts ELSE Zeros(Len(tasks))

\* A skipped bar that runs handle_data all the same.
Quiet_RunsHandle(dt) ==
    /\ fires' = KeepOrReset(dt, fires)
    /\ ticksAtDt' = IF dt = current_dt THEN ticksAtDt ELSE 0
    /\ lastTick' = NoTick
    /\ inHandle' = TRUE
    /\ handleCalls' = handleCalls + 1
    /\ UNCHANGED <<tasks, dayFires, run_on_open, handled_today, pending>>

\* A handler that returns without reaching the hooks, the tick and the
\* user's handle_data.
Quiet(dt) ==
    /\ fires' = KeepOrReset(dt, fires)
    /\ ticksAtDt' = IF dt = current_dt THEN ticksAtDt ELSE 0
    /\ lastTick' = NoTick
    /\ inHandle' = FALSE
    /\ UNCHANGED <<tasks, dayFires, run_on_open, handled_today, handleCalls, pending>>

\* The tail shared by next_open and next once the bar is past warm-up:
\* the named hook, the scheduler tick, then _run_handle.
RunBar(dt, hook, handledAfter) ==
    LET res == execute_pending_tasks(tasks, dt)
    IN /\ hookCalls' = trigger_lifecycle_tasks(hookCalls, hook)
       /\ tasks' = res.tasks
       /\ lastTick' = TickRecord(tasks, dt, res)
       /\ fires' = Bump(KeepOrReset(dt, fires), res.invoked)
       /\ ticksAtDt' = (IF dt = current_dt THEN ticksAtDt ELSE 0) + 1
       /\ dayFires' = Bump(dayFires, res.invoked)
       /\ run_on_open' = IF fill_price # "close" THEN "yes" ELSE "no"
       /\ handled_today' = handledAfter
       /\ handleCalls' = handleCalls + 1
       /\ inHandle' = TRUE
       /\ pending' = pending \o CorporateOrders({e \in corporate_actions : e.date = bar.date})

next_open ==
    /\ pc = "bar_start"
    /\ coo
    /\ pc' = "after_open"
    /\ blocked_orders' = <<>>
    /\ lastOrder' = NoOrder
    /\ IF run_on_open = "no"
       THEN /\ log' = <<>>
            /\ Quiet(current_dt)
            /\ UNCHANGED <<current_dt, in_warmup, hookCalls>>
       ELSE LET dt == BarDt(bar)
                warm == bar.date < user_start
            IN /\ current_dt' = dt
               /\ in_warmup' = warm
               /\ IF warm
                  THEN /\ log' = WarmupLog(in_warmup, warm)
                       /\ Quiet(dt)
                       /\ UNCHANGED hookCalls
                  ELSE /\ RunBar(dt, "before_trading_start", TRUE)
                       /\ log' = WarmupLog(in_warmup, warm)
                                 \o TaskErrorLog(execute_pending_tasks(tasks, dt).errors)
    /\ UNCHANGED <<sideVars, optVars, regVars, bar, prev_close, after_fired_date, cash, position,
                   daily_bought, ordersThisBar>>

\* Between next_open and next the broker executes what is pending.
BrokerNext ==
    /\ \/ pc = "after_open"
       \/ pc = "bar_start" /\ ~coo
    /\ pc' = "broker_done"
    /\ LET led == ApplyFills([cash |-> cash, position |-> position, bought |-> daily_bought],
                             pending, price_context(bar), bar.date)
       IN /\ cash' = led.cash
          /\ position' = led.position
          /\ daily_bought' = led.bought
    /\ pending' = <<>>
    /\ log' = <<>>
    /\ blocked_orders' = <<>>
    /\ lastOrder' = NoOrder
    /\ lastTick' = NoTick
    /\ inHandle' = FALSE
    /\ UNCHANGED <<sideVars, optVars, regVars, tasks, clockVars, ordersThisBar, fires, countVars>>

next ==
    /\ pc = "broker_done"
    /\ pc' = "bar_done"
    /\ blocked_orders' = <<>>
    /\ lastOrder' = NoOrder
    /\ LET dt == BarDt(bar)
           warm == bar.date < user_start
       IN /\ current_dt' = dt
          /\ IF run_on_open # "no" /\ handled_today
             THEN /\ hookCalls' = IF after_fired_date # bar.date
                                  THEN trigger_lifecycle_tasks(hookCalls, "after_trading_end")
                                  ELSE hookCalls
                  /\ after_fired_date' = bar.date
                  /\ log' = <<>>
                  /\ Quiet(dt)
                  /\ UNCHANGED <<in_warmup, daily_bought>>
             ELSE /\ daily_bought' = PruneBought(daily_bought, bar.date)
                  /\ in_warmup' = warm
                  /\ UNCHANGED after_fired_date
                  /\ IF warm
                     THEN /\ log' = WarmupLog(in_warmup, warm)
                          /\ Quiet(dt)
                          /\ UNCHANGED hookCalls
                     ELSE /\ RunBar(dt, "after_trading_end", FALSE)
                          /\ log' = WarmupLog(in_warmup, warm)
                                    \o TaskErrorLog(execute_pending_tasks(tasks, dt).errors)
    /\ UNCHANGED <<sideVars, optVars, regVars, bar, prev_close, cash, position, ordersThisBar>>

\* ------------------------------------------------------------------------
\* Order intents (jq_api)
\* ------------------------------------------------------------------------
\* The snapshot with every held share closeable, today's buys included.
position_snapshot_NoTPlus1 == [total |-> position, closeable |-> Max(0, position)]

\* utils.merge_position and utils.position_snapshot: total and closeable.
position_snapshot ==
    IF position = 0 THEN [total |-> 0, closeable |-> 0]
    ELSE LET c == Max(0, position - BoughtOn(daily_bought, current_dt.date))
         IN [total |-> position,
             closeable |-> IF c > position THEN Max(0, position) ELSE c]

\* context.portfolio.positions of the compiled strategy: what user code reads.
portfolio_positions ==
    [total_amount |-> position,
     closeable_amount |-> Max(0, position - BoughtOn(daily_bought, current_dt.date))]

\* utils.round_to_price_tick of prev_close times the limit factor, in cents
\* with the default tick of one cent and the default factors 1.10 and 0.90.
UpLimit(pclose) == (pclose * 110) \div 100

\* The down limit one tick lower: a price equal to the limit passes.
DownLimit_Strict(pclose) == ((pclose * 90) \div 100) - 1

DownLimit(pclose) == (pclose * 90) \div 100

LimitCheckOn == prev_close > 0

Blocked(side, price, status) ==
    [side |-> side, size |-> 0, price |-> price, value |-> 0, commission |-> 0,
     status |-> status]

Nothing == [order |-> <<>>, blocked |-> <<>>, log |-> <<>>]

Submit(side, size, entries) ==
    [order |-> <<[side |-> side, size |-> size]>>, blocked |-> <<>>, log |-> entries]

\* The cash loop taking two lots off at a time.
RECURSIVE AffordableShares_TwoLots(_, _, _)
AffordableShares_TwoLots(shares, price, available) ==
    IF shares <= 0 THEN shares
    ELSE IF shares * price + Commission(shares * price) <= available THEN shares
    ELSE AffordableShares_TwoLots(shares - 2 * Lot, price, available)

\* The cash loop of order_value: one lot off at a time until gross plus
\* commission fits the cash.
RECURSIVE AffordableShares(_, _, _)
AffordableShares(shares, price, available) ==
    IF shares <= 0 THEN shares
    ELSE IF shares * price + Commission(shares * price) <= available THEN shares
    ELSE AffordableShares(shares - Lot, price, available)

\* order_value, buy side (value > 0).
order_value_buy(value, px) ==
    LET raw_shares == value \div px.base_price
        shares == (raw_shares \div Lot) * Lot
        gross == shares * px.exec_buy_price
        final == IF gross + Commission(gross) > cash
                 THEN AffordableShares(shares, px.exec_buy_price, cash)
                 ELSE shares
    IN IF shares <= 0 THEN Nothing
       ELSE IF final <= 0 THEN Nothing
       ELSE Submit("BUY", final, <<"[sizing_mode]">>)

\* order_value, sell side (value < 0).
order_value_sell(value, px) ==
    LET value_abs == 0 - value
        max_sell_shares == Max(0, position_snapshot.closeable)
        raw_need == value_abs \div px.base_price
        tentative == IF raw_need > 0 THEN (raw_need \div Lot) * Lot ELSE 0
        shares == Min(max_sell_shares, IF tentative > 0 THEN tentative ELSE max_sell_shares)
    IN IF max_sell_shares <= 0 THEN Nothing
       ELSE Submit("SELL", shares,
                   IF shares < max_sell_shares THEN <<"[T+1_adjust] SELL clamp">> ELSE <<>>)

\* An exception handler that drops the exception without a log entry.
Caught_NoLog(tag) == [order |-> <<>>, blocked |-> <<>>, log |-> <<>>]

\* The except clause that ends every intent's try block: the exception is
\* logged under the intent's tag and the intent returns None.
Caught(tag) == [order |-> <<>>, blocked |-> <<>>, log |-> <<tag>>]

order_value(value) ==
    LET px == price_context(bar)
    IN IF in_warmup THEN Nothing
       ELSE IF px.base_price <= 0
       THEN Caught("[order_value_error]")
       ELSE IF LimitCheckOn /\ value >= 0 /\ px.exec_buy_price >= UpLimit(prev_close)
       THEN [order |-> <<>>, log |-> <<"[limit_check] BLOCK side=BUY">>,
             blocked |-> <<Blocked("BUY", px.exec_buy_price, "BlockedLimitUp")>>]
       ELSE IF LimitCheckOn /\ value < 0 /\ px.exec_sell_price <= DownLimit(prev_close)
       THEN [order |-> <<>>, log |-> <<"[limit_check] BLOCK side=SELL">>,
             blocked |-> <<Blocked("SELL", px.exec_sell_price, "BlockedLimitDown")>>]
       ELSE IF value > 0 THEN order_value_buy(value, px)
       ELSE IF value < 0 THEN order_value_sell(value, px)
       ELSE Nothing

\* order: the share count priced at the base price goes to order_value.
order(amount) ==
    LET px == price_context(bar)
    IN IF in_warmup THEN Nothing
       ELSE IF px.base_price <= 0
       THEN Caught("[order_error]")
       ELSE IF amount # 0 THEN order_value(amount * px.base_price)
       ELSE Nothing

\* order_target's sell side without the clamp to the closeable quantity.
order_target_sell_NoClamp(sell_needed) ==
    IF sell_needed <= 0 THEN Nothing ELSE Submit("SELL", sell_needed, <<>>)

\* order_target, sell side (delta < 0).
order_target_sell(sell_needed) ==
    LET max_sell == Max(0, position_snapshot.closeable)
        clamped == Min(max_sell, sell_needed)
        rounded == IF clamped % Lot # 0 /\ clamped # max_sell
                   THEN (clamped \div Lot) * Lot
                   ELSE clamped
        sell_size == IF clamped % Lot # 0 /\ clamped # max_sell /\ rounded <= 0 /\ max_sell > 0
                     THEN max_sell
                     ELSE rounded
    IN IF max_sell <= 0 THEN Nothing
       ELSE IF sell_size <= 0 THEN Nothing
       ELSE Submit("SELL", sell_size,
                   IF sell_size < sell_needed THEN <<"[T+1_adjust] SELL clamp">> ELSE <<>>)

order_target(target) ==
    LET px == price_context(bar)
        mag == ((IF target >= 0 THEN target ELSE 0 - target) \div Lot) * Lot
        tgt == IF target >= 0 THEN mag ELSE 0 - mag
        delta == tgt - position_snapshot.total
    IN IF in_warmup THEN Nothing
       ELSE IF px.base_price <= 0
       THEN Caught("[order_target_error]")
       ELSE IF delta = 0 THEN Nothing
       ELSE IF LimitCheckOn /\ delta > 0 /\ px.exec_buy_price >= UpLimit(prev_close)
       THEN [order |-> <<>>, log |-> <<"[limit_check] BLOCK side=BUY">>,
             blocked |-> <<Blocked("BUY", px.exec_buy_price, "BlockedLimitUp")>>]
       ELSE IF LimitCheckOn /\ delta < 0 /\ px.exec_sell_price <= DownLimit(prev_close)
       THEN [order |-> <<>>, log |-> <<"[limit_check] BLOCK side=SELL">>,
             blocked |-> <<Blocked("SELL", px.exec_sell_price, "BlockedLimitDown")>>]
       ELSE IF delta > 0 THEN Submit("BUY", delta, <<>>)
       ELSE order_target_sell(0 - delta)

\* order_target_value with the value given as the fraction num / den of a
\* cent amount: the target share count is floor(floor(value / price) / lot) * lot.
order_target_value(num, den) ==
    LET px == price_context(bar)
        raw_target == IF num < 0 THEN 0 ELSE num \div (den * px.base_price)
    IN IF in_warmup THEN Nothing
       ELSE IF px.base_price <= 0
       THEN Caught("[order_target_value_error]")
       ELSE order_target((raw_target \div Lot) * Lot)

\* order_target_percent: percent (in hundredths) of broker.getvalue().
order_target_percent(percent) ==
    LET total_value == cash + position * bar.close
    IN IF in_warmup THEN Nothing
       ELSE IF total_value <= 0 THEN Nothing
       ELSE order_target_value(total_value * percent, 100)

\* The user's code calls an intent from handle_data; what the intent
\* returns is submitted, recorded and logged.
CallIntent(name, requested, res) ==
    /\ inHandle
    /\ pc \in {"after_open", "bar_done"}
    /\ ordersThisBar < MaxOrdersPerBar
    /\ ordersThisBar' = ordersThisBar + 1
    /\ pending' = pending \o [k \in 1..Len(res.order) |->
                                 [side |-> res.order[k].side, size |-> res.order[k].size,
                                  via |-> name]]
    /\ blocked_orders' = res.blocked
    /\ log' = res.log
    /\ lastOrder' = [intent |-> name, requested |-> requested, order |-> res.order,
                     cash |-> cash, snapshot |-> position_snapshot,
                     price |-> price_context(bar)]
    /\ lastTick' = NoTick
    /\ UNCHANGED <<sideVars, pc, optVars, regVars, tasks, clockVars, cash, position, daily_bought,
                   inHandle, fires, countVars>>

\* TradingAPI.order of the earlier engine: a buy is rounded down to whole
\* hundreds, a sell is passed on as asked.
TradingAPI_order(amount) ==
    IF amount = 0 THEN Nothing
    ELSE IF amount > 0
    THEN IF (amount \div 100) * 100 = 0 THEN Nothing
         ELSE Submit("BUY", (amount \div 100) * 100, <<>>)
    ELSE Submit("SELL", 0 - amount, <<>>)

\* The earlier engine hands the order to its own broker, which is not part
\* of this ledger: only the submission is recorded.
TradingAPIOrder(amounts) ==
    \E a \in amounts :
        /\ inHandle
        /\ pc \in {"after_open", "bar_done"}
        /\ ordersThisBar < MaxOrdersPerBar
        /\ ordersThisBar' = ordersThisBar + 1
        /\ blocked_orders' = <<>>
        /\ log' = <<>>
        /\ lastOrder' = [intent |-> "TradingAPI.order", requested |-> a,
                         order |-> TradingAPI_order(a).order,
                         cash |-> cash, snapshot |-> position_snapshot,
                         price |-> price_context(bar)]
        /\ lastTick' = NoTick
        /\ UNCHANGED <<sideVars, pc, optVars, regVars, tasks, clockVars, ledgerVars, inHandle, fires,
                       countVars>>

\* Requests the user's code makes: share counts, cent values, percents.
OrderAmounts == {100, 0 - 50}
OrderValues == {2000 * 100, 0 - 1000 * 100, 0 - 3000 * 100}
OrderTargets == {0, 100, 300}
OrderTargetValues == {1000 * 100}
OrderTargetPercents == {100}
TradingAPIAmounts == {150, 0 - 150}

Order == \E a \in OrderAmounts : CallIntent("order", a, order(a))

OrderValue == \E v \in OrderValues : CallIntent("order_value", v, order_value(v))

OrderTarget == \E t \in OrderTargets : CallIntent("order_target", t, order_target(t))

OrderTargetValue ==
    \E v \in OrderTargetValues : CallIntent("order_target_value", v, order_target_value(v, 1))

OrderTargetPercent ==
    \E p \in OrderTargetPercents :
        CallIntent("order_target_percent", p, order_target_percent(p))

\* ------------------------------------------------------------------------
\* The scheduler and the bar loop: a strategy that registers timed tasks
\* and places no orders
\* ------------------------------------------------------------------------
FlatPrices == {10 * 100}

Next ==
    \/ \E v \in {"open", "close"} : set_option_fill_price(v)
    \/ \E start \in StartDates, frequency \in ApiFrequencies :
          CreateCerebro(start, frequency, 0, {})
    \/ run_daily
    \/ run_weekly
    \/ run_monthly
    \/ register_other
    \/ NextBar(FlatPrices, MaxDay)
    \/ next_open
    \/ BrokerNext
    \/ next
    \/ Finish

Spec == Init /\ [][Next]_vars

\* ------------------------------------------------------------------------
\* The lifecycle hooks and the bar loop: a strategy that registers
\* before_trading_start and after_trading_end callbacks
\* ------------------------------------------------------------------------
NextLifecycle ==
    \/ \E v \in {"open", "close"} : set_option_fill_price(v)
    \/ \E start \in StartDates, frequency \in ApiFrequencies :
          CreateCerebro(start, frequency, 0, {})
    \/ before_trading_start
    \/ after_trading_end
    \/ NextBar(FlatPrices, MaxDay)
    \/ next_open
    \/ BrokerNext
    \/ next
    \/ Finish

SpecLifecycle == Init /\ [][NextLifecycle]_vars

\* ------------------------------------------------------------------------
\* The order engine: a strategy that places orders on daily bars
\* ------------------------------------------------------------------------
Prices == {10 * 100, 11 * 100}
StartCashes == {2000 * 100}
CorporateActionSets == {{}, {[date |-> 1, delta |-> 50]}}

NextOrder ==
    \/ \E v \in {"open", "close"} : set_option_fill_price(v)
    \/ \E start \in StartDates, startCash \in StartCashes, actions \in CorporateActionSets :
          CreateCerebro(start, "daily", startCash, actions)
    \/ NextBar(Prices, MaxOrderDay)
    \/ next_open
    \/ BrokerNext
    \/ next
    \/ Finish
    \/ Order
    \/ OrderValue
    \/ OrderTarget
    \/ OrderTargetValue
    \/ OrderTargetPercent
    \/ TradingAPIOrder(TradingAPIAmounts)

SpecOrder == Init /\ [][NextOrder]_vars

\* ------------------------------------------------------------------------
\* portfolio.Position
\* ------------------------------------------------------------------------
Called(p, call) == [p EXCEPT !.hist = Append(@, call)]

\* on_new_day that clears today's amount and forgets to make it closeable.
Position_on_new_day_Forgets(p) == [p EXCEPT !.today_amount = 0]

Position_on_new_day(p) ==
    [p EXCEPT !.closeable_amount = @ + p.today_amount, !.today_amount = 0]

Position_add_amount(p, amount, is_today) ==
    IF amount <= 0 THEN p
    ELSE LET q == [p EXCEPT !.total_amount = IF p.total_amount > 0 THEN @ + amount ELSE amount]
         IN IF is_today THEN [q EXCEPT !.today_amount = @ + amount]
            ELSE [q EXCEPT !.closeable_amount = @ + amount]

Position_reduce_amount(p, amount) ==
    IF amount <= 0 THEN p
    ELSE LET a == Min(amount, p.total_amount)
             q == [p EXCEPT !.total_amount = @ - a,
                            !.closeable_amount = Max(0, @ - a)]
         IN IF q.total_amount = 0
            THEN [q EXCEPT !.closeable_amount = 0, !.today_amount = 0]
            ELSE q

\* JQStrategy.next copies the broker's position size into total_amount
\* when that size is not 0.
Position_sync(p, size) == IF size # 0 THEN [p EXCEPT !.total_amount = size] ELSE p

PositionAmounts == {100, 1000}
BrokerSizes == {0, 100, 900}

add_amount ==
    /\ Len(pos.hist) < MaxCalls
    /\ \E amount \in PositionAmounts, is_today \in BOOLEAN :
          pos' = Called(Position_add_amount(pos, amount, is_today),
                        [op |-> "add_amount", amount |-> amount, is_today |-> is_today])
    /\ UNCHANGED <<engineVars, cache, quote, runVars>>

reduce_amount ==
    /\ Len(pos.hist) < MaxCalls
    /\ \E amount \in PositionAmounts :
          pos' = Called(Position_reduce_amount(pos, amount),
                        [op |-> "reduce_amount", amount |-> amount, is_today |-> FALSE])
    /\ UNCHANGED <<engineVars, cache, quote, runVars>>

on_new_day ==
    /\ Len(pos.hist) < MaxCalls
    /\ pos' = Called(Position_on_new_day(pos),
                     [op |-> "on_new_day", amount |-> 0, is_today |-> FALSE])
    /\ UNCHANGED <<engineVars, cache, quote, runVars>>

sync_total_amount ==
    /\ Len(pos.hist) < MaxCalls
    /\ \E size \in BrokerSizes :
          pos' = Called(Position_sync(pos, size),
                        [op |-> "sync", amount |-> size, is_today |-> FALSE])
    /\ UNCHANGED <<engineVars, cache, quote, runVars>>

NextPosition ==
    \/ add_amount
    \/ reduce_amount
    \/ on_new_day
    \/ sync_total_amount

SpecPosition == Init /\ [][NextPosition]_vars

\* ------------------------------------------------------------------------
\* The order engine on bars that move to or past a price limit
\* ------------------------------------------------------------------------
LimitPrices == {9 * 100, 10 * 100}

NextLimit ==
    \/ \E v \in {"open", "close"} : set_option_fill_price(v)
    \/ \E start \in StartDates, startCash \in StartCashes :
          CreateCerebro(start, "daily", startCash, {})
    \/ NextBar(LimitPrices, MaxOrderDay)
    \/ next_open
    \/ BrokerNext
    \/ next
    \/ Finish
    \/ Order
    \/ OrderValue
    \/ OrderTarget
    \/ OrderTargetValue
    \/ OrderTargetPercent

SpecLimit == Init /\ [][NextLimit]_vars

\* ------------------------------------------------------------------------
\* The order engine sizing buys by value: ample cash, and cash below the
\* cost of one lot
\* ------------------------------------------------------------------------
SizingCashes == {100000 * 100, 995 * 100}
SizingValues == {80000 * 100, 2000 * 100, 500 * 100}

OrderValueSized ==
    \E v \in SizingValues : CallIntent("order_value", v, order_value(v))

NextSizing ==
    \/ \E v \in {"open", "close"} : set_option_fill_price(v)
    \/ \E start \in StartDates, startCash \in SizingCashes :
          CreateCerebro(start, "daily", startCash, {})
    \/ NextBar(Prices, MaxOrderDay)
    \/ next_open
    \/ BrokerNext
    \/ next
    \/ Finish
    \/ OrderValueSized

SpecSizing == Init /\ [][NextSizing]_vars

\* ------------------------------------------------------------------------
\* The order engine on a feed that carries bars without a positive price
\* ------------------------------------------------------------------------
BadPrices == {0, 10 * 100}

NextBadPrice ==
    \/ \E v \in {"open", "close"} : set_option_fill_price(v)
    \/ \E start \in StartDates, startCash \in StartCashes :
          CreateCerebro(start, "daily", startCash, {})
    \/ NextBar(BadPrices, MaxOrderDay)
    \/ next_open
    \/ BrokerNext
    \/ next
    \/ Finish
    \/ Order
    \/ OrderValue
    \/ OrderTarget
    \/ OrderTargetValue
    \/ OrderTargetPercent

SpecBadPrice == Init /\ [][NextBadPrice]_vars

\* ------------------------------------------------------------------------
\* utils.price_context with slippage: prices in cents, slippage_perc in
\* ten-thousandths, price_tick in cents
\* ------------------------------------------------------------------------
Slippages == {0, 20, 100}
PriceTicks == {1, 5}
QuotePrices == {10 * 100, 10 * 100 + 1, 20 * 100}

\* Sign of the rounding error of the float product price * 100: it decides
\* the floor or ceiling only when the exact product is a whole number.
FloatErrs == {0 - 1, 0, 1}

\* _round_buy: floor(price * 100) / 100 of the price num / den cents.
round_buy(num, den, err) ==
    IF num % den = 0 /\ err < 0 THEN (num \div den) - 1 ELSE num \div den

\* _round_sell: ceil(price * 100) / 100 of the price num / den cents.
round_sell(num, den, err) ==
    IF num % den = 0 THEN (num \div den) + (IF err > 0 THEN 1 ELSE 0)
    ELSE (num \div den) + 1

\* utils.price_context: half the slippage on each side of the base price,
\* rounded to hundredths when there is slippage.
price_context_slippage(fill, q, errBuy, errSell) ==
    LET base == IF fill = "close" THEN q.close ELSE q.open
        slip_perc == q.slippage_perc
    IN [called |-> TRUE, fill_price |-> fill, slippage_perc |-> slip_perc,
        base_price |-> base,
        exec_buy_price |-> IF slip_perc # 0
                           THEN round_buy(base * (20000 + slip_perc), 20000, errBuy)
                           ELSE base,
        exec_sell_price |-> IF slip_perc # 0
                            THEN round_sell(base * (20000 - slip_perc), 20000, errSell)
                            ELSE base,
        asked |-> [open |-> q.open, close |-> q.close, price_tick |-> q.price_tick]]

set_slippage ==
    /\ pc \in {"compile", "initialize"}
    /\ \E s \in Slippages : quote' = [quote EXCEPT !.slippage_perc = s]
    /\ log' = <<"[set_slippage]">>
    /\ UNCHANGED <<pos, cache, runVars, pc, optVars, regVars, tasks, clockVars, ledgerVars, intentVars,
                   inHandle, fires, countVars, lastTick>>

set_option_price_tick ==
    /\ pc \in {"compile", "initialize"}
    /\ \E t \in PriceTicks : quote' = [quote EXCEPT !.price_tick = t]
    /\ log' = <<"[set_option]">>
    /\ UNCHANGED <<pos, cache, runVars, pc, optVars, regVars, tasks, clockVars, ledgerVars, intentVars,
                   inHandle, fires, countVars, lastTick>>

\* The data line comes to a bar.
DataLine ==
    /\ \E o \in QuotePrices, c \in QuotePrices : quote' = [quote EXCEPT !.open = o, !.close = c]
    /\ UNCHANGED <<engineVars, pos, cache, runVars>>

PriceContextCall ==
    /\ quote.open > 0
    /\ \E errBuy \in FloatErrs, errSell \in FloatErrs :
          quote' = [quote EXCEPT !.ctx = price_context_slippage(fill_price, quote, errBuy, errSell)]
    /\ UNCHANGED <<engineVars, pos, cache, runVars>>

NextPrice ==
    \/ \E v \in {"open", "close"} : set_option_fill_price(v)
    \/ set_slippage
    \/ set_option_price_tick
    \/ DataLine
    \/ PriceContextCall

SpecPrice == Init /\ [][NextPrice]_vars

\* ------------------------------------------------------------------------
\* MinuteAggregationCache: the payload and metadata files of one key, with
\* mtimes in microseconds
\* ------------------------------------------------------------------------
\* Source mtimes get_source_mtime returns; NoMtime stands for None.
Mtimes == {NoMtime, 0, 2}

\* abs(source_mtime - cached_mtime) > 1e-6
MtimeDiffers(a, b) == (IF a >= b THEN a - b ELSE b - a) > 1

\* Aggregated frames: aggregate_minute_dataframe ends with
\* reset_index(drop=True), so their index is the default range.
Frames == {[rows |-> "A", index |-> "range"], [rows |-> "B", index |-> "range"]}

\* A payload file with no rows in it.
to_parquet_Empty(df) == "none"

\* df.to_parquet(path, index=False): the rows are written, the index is not.
to_parquet(df) == df.rows

\* pd.read_parquet(path) of such a file: the rows under a default index.
read_parquet(payload) == [rows |-> payload, index |-> "range"]

\* The status load ends in, whether it returns the stored frame, and
\* whether it raises: meta.get fails on metadata that is valid JSON but no
\* object, outside the try blocks, and the status is left as it was.
MinuteAggregationCache_load(c, source_mtime) ==
    IF ~c.persist THEN [status |-> "disabled", frame |-> FALSE, raised |-> FALSE]
    ELSE IF c.data = "absent" \/ c.meta = "absent"
    THEN [status |-> "miss", frame |-> FALSE, raised |-> FALSE]
    ELSE IF c.meta = "corrupt" THEN [status |-> "meta_error", frame |-> FALSE, raised |-> FALSE]
    ELSE IF c.meta = "misshapen"
    THEN [status |-> c.last_status, frame |-> FALSE, raised |-> TRUE]
    ELSE IF source_mtime # NoMtime /\ c.cached_mtime # NoMtime
            /\ MtimeDiffers(source_mtime, c.cached_mtime)
    THEN [status |-> "mismatch", frame |-> FALSE, raised |-> FALSE]
    ELSE IF c.data = "ok" THEN [status |-> "hit", frame |-> TRUE, raised |-> FALSE]
    ELSE [status |-> "load_error", frame |-> FALSE, raised |-> FALSE]

\* The cache object and the files after load(key, source_mtime).
Loading(c, source_mtime) ==
    LET r == MinuteAggregationCache_load(c, source_mtime)
    IN [c EXCEPT !.last_status = r.status, !.returned = r.frame,
                 !.got = IF r.frame THEN read_parquet(c.payload) ELSE NoFrame,
                 !.raised = r.raised,
                 !.asked = source_mtime,
                 !.at_load = [data |-> c.data, meta |-> c.meta, cached_mtime |-> c.cached_mtime],
                 !.op = "load",
                 !.kept = IF c.kept.valid
                          THEN [@ EXCEPT !.loads = IF @ < 2 THEN @ + 1 ELSE @]
                          ELSE @]

\* save writing whether or not persistence is on.
Saving_Unguarded(c, df, source_mtime, written) ==
    [c EXCEPT
        !.data = IF written = "neither" THEN @ ELSE "ok",
        !.payload = IF written = "neither" THEN @ ELSE to_parquet(df),
        !.meta = IF written = "both" THEN "ok" ELSE @,
        !.cached_mtime = IF written = "both" THEN source_mtime ELSE @,
        !.last_status = IF written = "both" THEN "saved" ELSE "persist_error",
        !.op = "save"]

\* The cache object and the files after save(key, df, source_mtime), of
\* which the payload and the metadata, the payload alone or neither got
\* written; without persistence save returns at once.
Saving(c, df, source_mtime, written) ==
    IF ~c.persist THEN [c EXCEPT !.op = "save"]
    ELSE [c EXCEPT
             !.data = IF written = "neither" THEN @ ELSE "ok",
             !.payload = IF written = "neither" THEN @ ELSE to_parquet(df),
             !.meta = IF written = "both" THEN "ok" ELSE @,
             !.cached_mtime = IF written = "both" THEN source_mtime ELSE @,
             !.last_status = IF written = "both" THEN "saved" ELSE "persist_error",
             !.returned = FALSE, !.got = NoFrame, !.raised = FALSE,
             !.op = "save",
             !.kept = IF written = "both"
                      THEN [valid |-> TRUE, frame |-> df, mtime |-> source_mtime, loads |-> 0]
                      ELSE NoKept]

CacheLog(status) ==
    IF status \in {"disabled", "miss", "none", "saved", "persist_error"} THEN <<>>
    ELSE <<"[minute_cache] " \o status>>

\* MinuteAggregationCache(CacheConfig(persist, ...)) over the directory as
\* it is.
MinuteAggregationCache_init ==
    /\ \E persist \in BOOLEAN :
          cache' = [cache EXCEPT !.persist = persist, !.last_status = "none",
                                 !.returned = FALSE, !.got = NoFrame, !.raised = FALSE,
                                 !.op = "init"]
    /\ UNCHANGED <<engineVars, pos, quote, runVars>>

load ==
    /\ \E source_mtime \in Mtimes :
          /\ cache' = Loading(cache, source_mtime)
          /\ log' = IF MinuteAggregationCache_load(cache, source_mtime).raised THEN <<>>
                    ELSE CacheLog(MinuteAggregationCache_load(cache, source_mtime).status)
    /\ UNCHANGED <<pos, quote, runVars, pc, optVars, regVars, tasks, clockVars, ledgerVars, intentVars,
                   inHandle, fires, countVars, lastTick>>

\* save: the payload is written, then the metadata; either write may fail.
save ==
    /\ \E df \in Frames, source_mtime \in Mtimes, written \in {"both", "payload", "neither"} :
          /\ cache' = Saving(cache, df, source_mtime, written)
          /\ log' = IF ~cache.persist THEN <<>>
                    ELSE IF written = "both" THEN <<"[minute_cache] persisted">>
                    ELSE <<"[minute_cache] persist_error">>
    /\ UNCHANGED <<pos, quote, runVars, pc, optVars, regVars, tasks, clockVars, ledgerVars, intentVars,
                   inHandle, fires, countVars, lastTick>>

\* The directory changes under the cache: a file is removed or damaged, or
\* the metadata is replaced by JSON that is no object.
FileLost ==
    /\ \E f \in {"data", "meta"}, to \in {"absent", "corrupt", "misshapen"} :
          /\ cache[f] # "absent"
          /\ to = "misshapen" => f = "meta"
          /\ cache' = [cache EXCEPT ![f] = to, !.kept = NoKept, !.op = "lost"]
    /\ UNCHANGED <<engineVars, pos, quote, runVars>>

NextCache ==
    \/ MinuteAggregationCache_init
    \/ load
    \/ save
    \/ FileLost

SpecCache == Init /\ [][NextCache]_vars

\* ------------------------------------------------------------------------
\* IntradayPipeline._prepare_minute_cache: one cache object over the files
\* of every symbol's key
\* ------------------------------------------------------------------------
\* history_df_map.get(symbol): no frame, a frame with no rows, a frame
\* without a datetime column, or minute bars. load_price_dataframe keeps
\* the rows whose datetime lies in the requested range, so the minute bars
\* of a frame that has rows all carry a datetime.
HistoryKinds == {"none", "empty", "no_datetime", "minutes"}

\* The mtimes of the symbols' source files.
SourceMtimes == {0, 2}

\* A frame with no rows.
EmptyFrame == [rows |-> "empty", index |-> "range"]

\* aggregate_minute_dataframe: a copy of a frame without rows, else one row
\* per date under a default index.
aggregate_minute_dataframe(df) ==
    IF df = "empty" THEN EmptyFrame ELSE [rows |-> "A", index |-> "range"]

\* The cache object looking at the files of one key.
WithFiles(persist, status, f) ==
    [NewCache EXCEPT !.persist = persist, !.last_status = status, !.data = f.data,
                     !.meta = f.meta, !.cached_mtime = f.cached_mtime, !.payload = f.payload]

FilesOf(c) ==
    [data |-> c.data, meta |-> c.meta, cached_mtime |-> c.cached_mtime, payload |-> c.payload]

\* The loop body for one symbol; an exception out of cache.load leaves the
\* function at once.
PrepareSymbol(p, symbol, source_mtime, written) ==
    LET df == p.history[symbol]
        c0 == WithFiles(p.persist, p.last_status, p.store[symbol])
        c1 == Loading(c0, source_mtime)
        load_status == IF c1.last_status = "none" THEN "unknown" ELSE c1.last_status
        counted == [p.metrics EXCEPT
                       !.hits = IF load_status = "hit" THEN @ + 1 ELSE @,
                       !.mismatches = IF load_status = "mismatch" THEN @ + 1 ELSE @,
                       !.misses = IF load_status = "miss" THEN @ + 1 ELSE @,
                       !.errors = IF load_status \in {"meta_error", "load_error"}
                                  THEN @ + 1 ELSE @]
        aggregated == aggregate_minute_dataframe(df)
        c2 == Saving(c1, aggregated, source_mtime, written)
        save_status == IF c2.last_status # "none" THEN c2.last_status
                       ELSE IF ~p.persist THEN "disabled" ELSE "saved"
        saveLog == IF ~p.persist THEN <<>>
                   ELSE IF written = "both" THEN <<"[minute_cache] persisted">>
                   ELSE <<"[minute_cache] persist_error">>
    IN  IF df \in {"none", "empty", "no_datetime"} THEN p
        ELSE IF c1.raised THEN [p EXCEPT !.raised = TRUE]
        ELSE IF c1.returned
        THEN [p EXCEPT !.last_status = c1.last_status,
                       !.metrics = counted,
                       !.minute_cache[symbol] = c1.got,
                       !.records[symbol] = [load_status |-> load_status, save_status |-> "none"],
                       !.log = @ \o CacheLog(c1.last_status)]
        ELSE IF aggregated = EmptyFrame
        THEN [p EXCEPT !.last_status = c1.last_status,
                       !.metrics = [counted EXCEPT !.builds = @ + 1, !.errors = @ + 1],
                       !.records[symbol] = [load_status |-> load_status, save_status |-> "empty"],
                       !.log = @ \o CacheLog(c1.last_status)]
        ELSE [p EXCEPT !.last_status = c2.last_status,
                       !.store[symbol] = FilesOf(c2),
                       !.metrics = [counted EXCEPT
                                       !.builds = @ + 1,
                                       !.saves = IF save_status = "saved" THEN @ + 1 ELSE @,
                                       !.errors = IF save_status \notin {"saved", "disabled"}
                                                  THEN @ + 1 ELSE @],
                       !.minute_cache[symbol] = aggregated,
                       !.records[symbol] = [load_status |-> load_status,
                                            save_status |-> save_status],
                       !.log = @ \o CacheLog(c1.last_status) \o <<"[minute_cache] build">>
                                 \o saveLog]

\* for symbol in self.ctx.symbols, from the k-th on.
RECURSIVE PrepareFrom(_, _, _, _)
PrepareFrom(p, k, mtimes, writes) ==
    IF k > Len(ctx_symbols) \/ p.raised THEN p
    ELSE LET q == CHOOSE r \in {PrepareSymbol(p, ctx_symbols[k], mtimes[ctx_symbols[k]],
                                              writes[ctx_symbols[k]])} : TRUE
         IN PrepareFrom(q, k + 1, mtimes, writes)

\* error_records that looks at the load status only.
ErrorRecords_LoadOnly(records) ==
    {s \in Symbols : records[s].load_status \in {"meta_error", "load_error"}}

\* The symbols whose record goes to error_records.
ErrorRecords(records) ==
    {s \in Symbols : \/ records[s].load_status \in {"meta_error", "load_error"}
                     \/ records[s].save_status \in {"persist_error", "empty"}}

\* The symbols whose record goes to the anomalies.
Anomalies(records) ==
    {s \in Symbols : \/ records[s].load_status \in {"meta_error", "load_error", "mismatch"}
                     \/ records[s].save_status \in {"persist_error", "empty"}}

\* The summary and the diagnostics written after the loop.
Summarised(p) ==
    IF p.raised THEN p
    ELSE [p EXCEPT !.diagnostics = [written |-> TRUE,
                                    errors |-> Cardinality(ErrorRecords(p.records)),
                                    anomalies |-> Anomalies(p.records)],
                   !.log = IF ErrorRecords(p.records) # {}
                           THEN @ \o <<"[minute_cache_diag]">> ELSE @]

\* A run's _prepare_minute_cache with options["persist_minute_agg"] =
\* persist over history_df_map = history, in the run's new jq_state:
\* nothing is done for an empty map; else a new cache object and new
\* metrics, the loop, the summary. Only the cache directory is there from
\* run to run.
prepare_minute_cache ==
    /\ \E persist \in BOOLEAN, history \in [Symbols -> HistoryKinds],
          mtimes \in [Symbols -> SourceMtimes],
          writes \in [Symbols -> {"both", "payload"}] :
          /\ \A s \in Symbols :
                /\ history[s] # "minutes" => mtimes[s] = 0
                /\ (history[s] # "minutes" \/ ~persist) => writes[s] = "both"
          /\ LET p0 == [NewPrep EXCEPT !.persist = persist, !.store = prep.store,
                                       !.before = prep.store, !.history = history,
                                       !.op = "prepare"]
                 p1 == CHOOSE r \in {PrepareFrom(p0, 1, mtimes, writes)} : TRUE
             IN prep' = IF \A s \in Symbols : history[s] = "none" THEN p0
                        ELSE Summarised(p1)
    /\ UNCHANGED <<engineVars, pos, cache, quote, race, backtest, lookback, recorded, lateVars>>

\* The cache directory changes between runs: a file of a key is damaged,
\* or its metadata is replaced by JSON that is no object.
StoreDamaged ==
    /\ \E s \in Symbols, f \in {"data", "meta"}, to \in {"corrupt", "misshapen"} :
          /\ prep.store[s][f] = "ok"
          /\ to = "misshapen" => f = "meta"
          /\ prep' = [NewPrep EXCEPT !.store = [prep.store EXCEPT ![s][f] = to],
                                     !.before = prep.store, !.op = "damaged"]
    /\ UNCHANGED <<engineVars, pos, cache, quote, race, backtest, lookback, recorded, lateVars>>

NextPrepare ==
    \/ prepare_minute_cache
    \/ StoreDamaged

SpecPrepare == Init /\ [][NextPrepare]_vars

\* ------------------------------------------------------------------------
\* Two runs on one cache key: load and save step by step, as the file
\* system sees them. payload and meta.by name the run whose save wrote the
\* file.
\* ------------------------------------------------------------------------
\* A run that ended before the two began left a whole entry.
EarlierRun ==
    /\ race.payload = "none" /\ race.meta = NoMeta
    /\ \A r \in Runs : race.runs[r].pc = "load"
    /\ \E m \in SourceMtimes :
          race' = [race EXCEPT !.payload = "earlier",
                               !.meta = [by |-> "earlier", source_mtime |-> m]]
    /\ UNCHANGED <<engineVars, pos, cache, quote, prep, backtest, lookback, recorded, lateVars>>

\* load up to the mtime comparison: miss when a file is absent, mismatch
\* when the recorded mtime differs; _prepare_minute_cache then aggregates
\* and calls save.
load_meta(r) ==
    /\ race.runs[r].pc = "load"
    /\ \E m \in SourceMtimes :
          race' = [race EXCEPT
                      !.runs[r] =
                          IF race.payload = "none" \/ race.meta = NoMeta
                          THEN [@ EXCEPT !.pc = "save_payload", !.source_mtime = m,
                                         !.load_status = "miss"]
                          ELSE IF MtimeDiffers(m, race.meta.source_mtime)
                          THEN [@ EXCEPT !.pc = "save_payload", !.source_mtime = m,
                                         !.load_status = "mismatch"]
                          ELSE [@ EXCEPT !.pc = "load_payload", !.source_mtime = m,
                                         !.meta_read = race.meta.by]]
    /\ UNCHANGED <<engineVars, pos, cache, quote, prep, backtest, lookback, recorded, lateVars>>

\* load from pd.read_parquet on: a hit with the payload as it is now.
load_payload(r) ==
    /\ race.runs[r].pc = "load_payload"
    /\ race' = [race EXCEPT !.runs[r] = [@ EXCEPT !.pc = "done", !.load_status = "hit",
                                                  !.got = race.payload]]
    /\ UNCHANGED <<engineVars, pos, cache, quote, prep, backtest, lookback, recorded, lateVars>>

\* save: df.to_parquet(data_path).
save_payload(r) ==
    /\ race.runs[r].pc = "save_payload"
    /\ race' = [race EXCEPT !.payload = r, !.runs[r].pc = "save_meta"]
    /\ UNCHANGED <<engineVars, pos, cache, quote, prep, backtest, lookback, recorded, lateVars>>

\* save: meta_path.write_text(...).
save_meta(r) ==
    /\ race.runs[r].pc = "save_meta"
    /\ race' = [race EXCEPT !.meta = [by |-> r, source_mtime |-> race.runs[r].source_mtime],
                            !.runs[r].pc = "done"]
    /\ UNCHANGED <<engineVars, pos, cache, quote, prep, backtest, lookback, recorded, lateVars>>

NextRace ==
    \/ EarlierRun
    \/ \E r \in Runs : load_meta(r)
    \/ \E r \in Runs : load_payload(r)
    \/ \E r \in Runs : save_payload(r)
    \/ \E r \in Runs : save_meta(r)

SpecRace == Init /\ [][NextRace]_vars

\* ------------------------------------------------------------------------
\* run_backtest and BaseBacktestPipeline.run, stage by stage
\* ------------------------------------------------------------------------
SymbolInputs == {"", "000001", "000001,600000"}
Frequencies == {"daily", "weekly", "monthly", "1min"}

\* options["enable_daily_pipeline"], normalised.
DailyFlags == {"auto", "off"}

\* The stages of BaseBacktestPipeline.run, in its order.
Stages == <<"load_data", "configure_execution", "execute_strategy", "collect_results">>

select_pipeline_class(frequency, flag) ==
    IF frequency \in {"daily", "weekly", "monthly"} /\ flag = "auto"
    THEN "DailyPipeline" ELSE "IntradayPipeline"

\* The BacktestResult of the except branch.
FailedResult ==
    [metrics |-> "error", curves |-> "empty", trades |-> "empty", orders |-> "empty",
     blocked_orders |-> "empty", log |-> "traceback"]

\* The BacktestResult built from the PipelineResult.
FullResult ==
    [metrics |-> "computed", curves |-> "computed", trades |-> "collected",
     orders |-> "collected", blocked_orders |-> "collected", log |-> "log_buffer"]

\* An exception that leaves run_backtest to its caller.
Raised_Escapes(b, stage, error) ==
    [b EXCEPT !.pc = "returned", !.raised_in = stage, !.error = error, !.escaped = TRUE]

\* An exception that is dropped, the run going on with the next stage.
Raised_Ignored(b, stage, error) ==
    [b EXCEPT !.pc = IF stage = "compile" THEN "load_data"
                     ELSE IF stage = "collect_results" THEN "returned"
                     ELSE Stages[Len(b.trace) + 1],
              !.raised_in = stage, !.error = error,
              !.result = IF stage = "collect_results" THEN FailedResult ELSE @]

\* An exception raised in a stage: nothing in the pipeline catches it, and
\* run_backtest's except Exception returns the failed result.
Raised(b, stage, error) ==
    [b EXCEPT !.pc = "returned", !.raised_in = stage, !.error = error, !.result = FailedResult]

\* run_backtest up to pipeline.run(): compile_user_strategy, the Cerebro
\* and the pipeline object.
compile_user_strategy ==
    /\ backtest.pc \in {"idle", "returned"}
    /\ \E symbol \in SymbolInputs, frequency \in Frequencies, flag \in DailyFlags,
          compiles \in BOOLEAN :
          LET b == [NewBacktest EXCEPT !.symbol = symbol, !.frequency = frequency,
                                       !.pipeline = select_pipeline_class(frequency, flag)]
          IN backtest' = IF compiles THEN [b EXCEPT !.pc = "load_data"]
                         ELSE Raised(b, "compile", "SyntaxError")
    /\ UNCHANGED <<engineVars, pos, cache, quote, prep, race, lookback, recorded, lateVars>>

\* load_data: prepare_data_sources raises when no symbol is given or a
\* symbol has no data; the intraday pipeline then prepares the minute
\* cache for 1min runs, out of which a load may raise.
load_data ==
    /\ backtest.pc = "load_data"
    /\ \E outcome \in {"ok", "no_symbol", "no_data", "cache_load_raises"} :
          /\ outcome = "no_symbol" <=> backtest.symbol = ""
          /\ outcome = "cache_load_raises" =>
                backtest.pipeline = "IntradayPipeline" /\ backtest.frequency = "1min"
          /\ LET b == [backtest EXCEPT !.trace = Append(@, "load_data")]
             IN backtest' = IF outcome = "ok" THEN [b EXCEPT !.pc = "configure_execution"]
                            ELSE Raised(b, "load_data", outcome)
    /\ UNCHANGED <<engineVars, pos, cache, quote, prep, race, lookback, recorded, lateVars>>

configure_execution ==
    /\ backtest.pc = "configure_execution"
    /\ \E ok \in BOOLEAN :
          LET b == [backtest EXCEPT !.trace = Append(@, "configure_execution")]
          IN backtest' = IF ok THEN [b EXCEPT !.pc = "execute_strategy"]
                         ELSE Raised(b, "configure_execution", "option_error")
    /\ UNCHANGED <<engineVars, pos, cache, quote, prep, race, lookback, recorded, lateVars>>

\* execute_strategy: run_strategy returns the strategy instance, which is
\* stored in ctx.strat.
execute_strategy ==
    /\ backtest.pc = "execute_strategy"
    /\ \E ok \in BOOLEAN :
          LET b == [backtest EXCEPT !.trace = Append(@, "execute_strategy")]
          IN backtest' = IF ok THEN [b EXCEPT !.pc = "collect_results", !.strat = TRUE]
                         ELSE Raised(b, "execute_strategy", "run_error")
    /\ UNCHANGED <<engineVars, pos, cache, quote, prep, race, lookback, recorded, lateVars>>

\* collect_results asserts ctx.strat; its PipelineResult becomes the
\* BacktestResult run_backtest returns.
collect_results ==
    /\ backtest.pc = "collect_results"
    /\ \E ok \in BOOLEAN :
          LET b == [backtest EXCEPT !.trace = Append(@, "collect_results")]
          IN backtest' = IF ~b.strat THEN Raised(b, "collect_results", "AssertionError")
                         ELSE IF ok THEN [b EXCEPT !.pc = "returned", !.result = FullResult]
                         ELSE Raised(b, "collect_results", "metrics_error")
    /\ UNCHANGED <<engineVars, pos, cache, quote, prep, race, lookback, recorded, lateVars>>

NextBacktest ==
    \/ compile_user_strategy
    \/ load_data
    \/ configure_execution
    \/ execute_strategy
    \/ collect_results

SpecBacktest == Init /\ [][NextBacktest]_vars

\* ------------------------------------------------------------------------
\* compute_lookback_days, a function of the options, the frequency, the
\* pipeline class and the strategy code
\* ------------------------------------------------------------------------
\* Values of options["history_lookback_days"]: not set, a string, -1, 0,
\* 2.7, 5 and 700.
LookbackOptions ==
    {NoLookbackOption, [kind |-> "string", tenths |-> 0]}
        \cup {[kind |-> "number", tenths |-> t] : t \in {0 - 10, 0, 27, 50, 7000}}

\* The periods the two regular expressions find in the strategy code.
PeriodSets == {{}, {2}, {2, 20}, {250}, {20, 9999}}

\* options.get(key, default)
OptionOr(value, default) == IF value = NoOption THEN default ELSE value

\* isinstance(lb, (int, float)) and lb >= 0
IsUserSet(lb) == lb.kind = "number" /\ lb.tenths >= 0

\* adjust_lookback_for_frequency of IntradayPipeline and of DailyPipeline.
adjust_lookback_for_frequency(l, lookback_days, user_set) ==
    IF l.pipeline = "IntradayPipeline"
    THEN IF ~user_set /\ l.frequency = "1min"
         THEN LET default_lb == OptionOr(l.minute_default_lookback_days, 10)
              IN IF default_lb # 0 THEN default_lb ELSE 10
         ELSE lookback_days
    ELSE IF ~user_set /\ l.frequency \in {"daily", "weekly", "monthly"}
         THEN LET default_lb ==
                      IF l.frequency = "weekly" THEN Max(1, 60 * 5)
                      ELSE IF l.frequency = "monthly" THEN Max(1, 36 * 21)
                      ELSE OptionOr(l.daily_default_lookback_days, 250)
              IN IF default_lb # 0 THEN default_lb ELSE lookback_days
         ELSE lookback_days

\* transform_period_for_frequency of IntradayPipeline and of DailyPipeline.
transform_period_for_frequency(l, period) ==
    IF l.pipeline = "IntradayPipeline"
    THEN IF l.frequency = "1min"
         THEN LET opt == OptionOr(l.minute_bars_per_day, 240)
                  bars_per_day == IF opt # 0 THEN opt ELSE 240
              IN Max(1, CeilDiv(period, bars_per_day))
         ELSE period
    ELSE IF l.frequency = "weekly" THEN Max(1, period * 5)
         ELSE IF l.frequency = "monthly" THEN Max(1, period * 21)
         ELSE period

\* Auto-expansion whatever the user has set.
should_auto_expand_Always(l, user_set) == TRUE

should_auto_expand(l, user_set) == ~user_set /\ l.jq_auto_history_preload

\* Auto-expansion without the cap of 600.
auto_expand_lookback_NoCap(l, lookback_days) ==
    LET periods == {p \in l.periods : p >= 3}
    IN IF periods = {} THEN lookback_days
       ELSE LET max_period == CHOOSE p \in periods : \A q \in periods : q <= p
                auto_lb == transform_period_for_frequency(l, max_period) * 3
            IN IF auto_lb > lookback_days THEN auto_lb ELSE lookback_days

auto_expand_lookback(l, lookback_days) ==
    LET periods == {p \in l.periods : p >= 3}
    IN IF periods = {} THEN lookback_days
       ELSE LET max_period == CHOOSE p \in periods : \A q \in periods : q <= p
                period_base == transform_period_for_frequency(l, max_period)
                auto_lb == IF period_base * 3 < 600 THEN period_base * 3 ELSE 600
            IN IF auto_lb > lookback_days THEN auto_lb ELSE lookback_days

\* compute_lookback_days, called once in a run's load_data, with the inputs
\* of l: the lookback after the frequency default and the value returned.
compute_lookback_days ==
    /\ ~lookback.called
    /\ \E flag \in DailyFlags, frequency \in Frequencies, lb \in LookbackOptions,
          daily_default \in {NoOption, 100}, minute_default \in {NoOption, 20},
          bars \in {NoOption, 48}, preload \in BOOLEAN, periods \in PeriodSets :
          LET l == [NewLookback EXCEPT
                       !.called = TRUE,
                       !.pipeline = select_pipeline_class(frequency, flag),
                       !.frequency = frequency,
                       !.history_lookback_days = lb,
                       !.daily_default_lookback_days = daily_default,
                       !.minute_default_lookback_days = minute_default,
                       !.minute_bars_per_day = bars,
                       !.jq_auto_history_preload = preload,
                       !.periods = periods]
              user_set == IsUserSet(lb)
              lookback_days == IF user_set THEN lb.tenths \div 10 ELSE 250
              adjusted == adjust_lookback_for_frequency(l, lookback_days, user_set)
              expanded == IF should_auto_expand(l, user_set)
                          THEN auto_expand_lookback(l, adjusted) ELSE adjusted
          IN lookback' = [l EXCEPT !.user_set = user_set, !.adjusted = adjusted,
                                   !.returned = Max(0, expanded)]
    /\ UNCHANGED <<engineVars, pos, cache, quote, prep, race, backtest, recorded, lateVars>>

NextLookback == compute_lookback_days

SpecLookback == Init /\ [][NextLookback]_vars

\* ------------------------------------------------------------------------
\* Warm-up: a strategy with timed tasks and lifecycle hooks on a feed that
\* starts before the user's start date, and the jq_api functions called
\* with the run's jq_state between the handlers
\* ------------------------------------------------------------------------
WarmupStartDates == {1}

\* record(**kwargs): nothing in warm-up, else one payload is appended to
\* jq_state["records"].
record_payloads == IF in_warmup THEN <<>> ELSE <<"payload">>

record ==
    /\ pc \in {"after_open", "bar_done"}
    /\ inHandle \/ in_warmup
    /\ recorded' = [called |-> TRUE, in_warmup |-> in_warmup, appended |-> record_payloads]
    /\ UNCHANGED <<engineVars, pos, cache, quote, prep, race, backtest, lookback, lateVars>>

\* An order intent called with the jq_state of a warm-up bar; what it
\* returns is submitted, recorded and logged.
WarmupIntent(name, requested, res) ==
    /\ in_warmup
    /\ pc \in {"after_open", "bar_done"}
    /\ ordersThisBar < MaxOrdersPerBar
    /\ ordersThisBar' = ordersThisBar + 1
    /\ pending' = pending \o [k \in 1..Len(res.order) |->
                                 [side |-> res.order[k].side, size |-> res.order[k].size,
                                  via |-> name]]
    /\ blocked_orders' = res.blocked
    /\ log' = res.log
    /\ lastOrder' = [intent |-> name, requested |-> requested, order |-> res.order,
                     cash |-> cash, snapshot |-> position_snapshot,
                     price |-> price_context(bar)]
    /\ lastTick' = NoTick
    /\ UNCHANGED <<sideVars, pc, optVars, regVars, tasks, clockVars, cash, position, daily_bought,
                   inHandle, fires, countVars>>

WarmupOrders ==
    \/ WarmupIntent("order", 100, order(100))
    \/ WarmupIntent("order_value", 2000 * 100, order_value(2000 * 100))
    \/ WarmupIntent("order_target", 100, order_target(100))
    \/ WarmupIntent("order_target_value", 2000 * 100, order_target_value(2000 * 100, 1))
    \/ WarmupIntent("order_target_percent", 50, order_target_percent(50))

NextWarmup ==
    \/ \E v \in {"open", "close"} : set_option_fill_price(v)
    \/ \E start \in WarmupStartDates : CreateCerebro(start, "daily", 2000 * 100, {})
    \/ run_daily
    \/ before_trading_start
    \/ after_trading_end
    \/ NextBar(FlatPrices, MaxDay)
    \/ next_open
    \/ BrokerNext
    \/ next
    \/ Finish
    \/ WarmupOrders
    \/ record

SpecWarmup == Init /\ [][NextWarmup]_vars

\* ------------------------------------------------------------------------
\* Exceptions raised by user code: the compiled UserStrategy and the
\* earlier JQStrategy, each driven by Cerebro one bar at a time
\* ------------------------------------------------------------------------
Callbacks == {"before_trading_start", "scheduled_task", "handle_data", "after_trading_end"}

\* The line each catching site writes for the callback it caught.
ErrorLine(strategy, callback) ==
    IF strategy = "JQStrategy" THEN "Error in " \o callback
    ELSE IF callback = "scheduled_task" THEN "[Scheduler] Task error"
    ELSE IF callback = "handle_data" THEN "[handle_data_error]"
    ELSE "[Lifecycle] " \o callback \o " error"

\* trigger_lifecycle_tasks, execute_pending_tasks and _run_handle: each
\* callback of `calls` is called in turn; one that raises is caught and
\* logged and the next one is called.
RECURSIVE CallCaught(_, _, _)
CallCaught(u, calls, raises) ==
    IF calls = <<>> THEN u
    ELSE LET c == Head(calls)
             v == [u EXCEPT !.invoked = Append(@, [bar |-> u.bars, callback |-> c]),
                            !.raised = IF c \in raises THEN Append(@, c) ELSE @,
                            !.log = IF c \in raises
                                    THEN Append(@, ErrorLine(u.strategy, c)) ELSE @]
         IN CallCaught(v, Tail(calls), raises)

\* JQStrategy.next: a callback that raises is logged and raised again, which
\* ends next, Cerebro.run and run_backtest.
RECURSIVE CallReraised(_, _, _)
CallReraised(u, calls, raises) ==
    IF calls = <<>> THEN u
    ELSE LET c == Head(calls)
             v == [u EXCEPT !.invoked = Append(@, [bar |-> u.bars, callback |-> c])]
         IN IF c \in raises
            THEN [v EXCEPT !.raised = Append(@, c),
                           !.log = Append(@, ErrorLine(u.strategy, c)),
                           !.pc = "raised", !.result = "exception"]
            ELSE CallReraised(v, Tail(calls), raises)

addstrategy ==
    /\ userrun.pc = "idle"
    /\ \E strategy \in {"UserStrategy", "JQStrategy"}, fp \in {"open", "close"} :
          userrun' = [NewUserRun EXCEPT !.strategy = strategy, !.fill_price = fp,
                                        !.pc = IF strategy = "UserStrategy" /\ fp = "open"
                                               THEN "next_open" ELSE "next"]
    /\ UNCHANGED besides_userrun

UserStrategy_next_open ==
    /\ userrun.strategy = "UserStrategy"
    /\ userrun.pc = "next_open"
    /\ userrun.bars < MaxDay
    /\ \E raises \in SUBSET Callbacks :
          userrun' = [CallCaught(userrun, <<"before_trading_start", "scheduled_task",
                                            "handle_data">>, raises)
                      EXCEPT !.pc = "next"]
    /\ UNCHANGED besides_userrun

UserStrategy_next ==
    /\ userrun.strategy = "UserStrategy"
    /\ userrun.pc = "next"
    /\ userrun.bars < MaxDay
    /\ \E raises \in SUBSET Callbacks :
          userrun' = [CallCaught(userrun,
                                 IF userrun.fill_price = "open"
                                 THEN <<"after_trading_end">>
                                 ELSE <<"after_trading_end", "scheduled_task", "handle_data">>,
                                 raises)
                      EXCEPT !.pc = IF userrun.fill_price = "open" THEN "next_open" ELSE "next",
                             !.bars = @ + 1]
    /\ UNCHANGED besides_userrun

JQStrategy_next ==
    /\ userrun.strategy = "JQStrategy"
    /\ userrun.pc = "next"
    /\ userrun.bars < MaxDay
    /\ \E raises \in SUBSET {"before_trading_start", "handle_data"} :
          LET u == CallReraised(userrun, <<"before_trading_start", "handle_data">>, raises)
          IN userrun' = IF u.pc = "raised" THEN u ELSE [u EXCEPT !.bars = @ + 1]
    /\ UNCHANGED besides_userrun

\* Cerebro.run comes back after the last bar and the result is built.
UserRunDone ==
    /\ userrun.pc \in {"next_open", "next"}
    /\ userrun.bars = MaxDay
    /\ userrun' = [userrun EXCEPT !.pc = "returned", !.result = "result"]
    /\ UNCHANGED besides_userrun

NextUserRun ==
    \/ addstrategy
    \/ UserStrategy_next_open
    \/ UserStrategy_next
    \/ JQStrategy_next
    \/ UserRunDone

SpecUserRun == Init /\ [][NextUserRun]_vars

\* ------------------------------------------------------------------------
\* Two backtest runs in one process, each through run_backtest of the
\* present engine or through JQBacktestEngine.run_backtest
\* ------------------------------------------------------------------------

\* What the earlier engine keeps per run (Context.options) and per module
\* (context.g).
JQFields == {"options", "g"}

\* The object run r reaches under field f, as the set of runs whose writes
\* it holds.
View(r, f) ==
    IF shared.runs[r].engine = "JQBacktestEngine" /\ f = "g"
    THEN shared.module_g
    ELSE shared.runs[r].holds[f]

\* compile_user_strategy: a new jq_state and a new g for this run.
build_jq_compat_env(r) ==
    /\ shared.runs[r].engine = "none"
    /\ shared' = [shared EXCEPT !.runs[r] = [NewSharedRun EXCEPT !.engine = "run_backtest"]]
    /\ UNCHANGED besides_shared

\* JQBacktestEngine.run_backtest: a new Context, and the module's g cleared.
reset_global_state(r) ==
    /\ shared.runs[r].engine = "none"
    /\ shared' = [shared EXCEPT !.runs[r] = [NewSharedRun EXCEPT !.engine = "JQBacktestEngine"],
                                !.module_g = {}]
    /\ UNCHANGED besides_shared

\* User code of run r writes to field f of the state it was given.
UserWrites(r, f) ==
    /\ shared.runs[r].engine # "none"
    /\ shared.runs[r].engine = "JQBacktestEngine" => f \in JQFields
    /\ f \notin shared.runs[r].wrote
    /\ shared' = IF shared.runs[r].engine = "JQBacktestEngine" /\ f = "g"
                 THEN [shared EXCEPT !.module_g = @ \cup {r},
                                     !.runs[r].wrote = @ \cup {f}]
                 ELSE [shared EXCEPT !.runs[r].holds[f] = @ \cup {r},
                                     !.runs[r].wrote = @ \cup {f}]
    /\ UNCHANGED besides_shared

\* The run returns; what it left in the module stays there.
RunReturns(r) ==
    /\ shared.runs[r].engine # "none"
    /\ shared' = [shared EXCEPT !.runs[r] = NewSharedRun]
    /\ UNCHANGED besides_shared

NextShared ==
    \E r \in Runs :
        \/ build_jq_compat_env(r)
        \/ reset_global_state(r)
        \/ \E f \in StateFields : UserWrites(r, f)
        \/ RunReturns(r)

SpecShared == Init /\ [][NextShared]_vars

\* ------------------------------------------------------------------------
\* The today-bought map over a feed long enough for entries to age
\* ------------------------------------------------------------------------
LastBoughtDay == MaxDay + 2

NextBought ==
    \/ \E v \in {"open", "close"} : set_option_fill_price(v)
    \/ CreateCerebro(0, "daily", 2000 * 100, {})
    \/ NextBar(FlatPrices, LastBoughtDay)
    \/ next_open
    \/ BrokerNext
    \/ next
    \/ Finish
    \/ CallIntent("order", 100, order(100))

SpecBought == Init /\ [][NextBought]_vars

\* ------------------------------------------------------------------------
\* aggregate_minute_dataframe on the rows of a minute frame
\* ------------------------------------------------------------------------

\* A minute row: its date (NoDate when pd.to_datetime gives NaT), its minute
\* within the day, and its prices and volume.
MinuteRow(d, mi, p) ==
    [date |-> d, minute |-> mi, open |-> p, close |-> p + 1, high |-> p + 2, low |-> p - 1,
     volume |-> p, amount |-> p * 10]

MinuteRows == { MinuteRow(d, mi, p) : d \in {NoDate, 1, 2, 3}, mi \in {1, 2}, p \in {10, 20} }

RECURSIVE SeqsUpTo(_, _)
SeqsUpTo(S, n) ==
    IF n = 0 THEN {<<>>}
    ELSE LET shorter == SeqsUpTo(S, n - 1)
         IN shorter \cup { Append(q, x) : q \in {r \in shorter : Len(r) = n - 1}, x \in S }

\* dropna(subset=["datetime"]): the rows with a datetime, in their order.
RECURSIVE DropNaT(_)
DropNaT(rows) ==
    IF rows = <<>> THEN <<>>
    ELSE IF Head(rows).date = NoDate THEN DropNaT(Tail(rows))
    ELSE <<Head(rows)>> \o DropNaT(Tail(rows))

\* One group of groupby("date"): the rows of date d, in frame order.
RECURSIVE GroupOf(_, _)
GroupOf(rows, d) ==
    IF rows = <<>> THEN <<>>
    ELSE IF Head(rows).date = d THEN <<Head(rows)>> \o GroupOf(Tail(rows), d)
    ELSE GroupOf(Tail(rows), d)

RECURSIVE SumOf(_, _)
SumOf(g, col) == IF g = <<>> THEN 0 ELSE Head(g)[col] + SumOf(Tail(g), col)

\* agg(first, last, max, min, sum, sum) over one group.
AggregateGroup(g, d) ==
    [date |-> d,
     open |-> g[1].open,
     close |-> g[Len(g)].close,
     high |-> CHOOSE h \in {g[k].high : k \in 1..Len(g)} :
                 \A k \in 1..Len(g) : g[k].high <= h,
     low |-> CHOOSE l \in {g[k].low : k \in 1..Len(g)} :
                \A k \in 1..Len(g) : g[k].low >= l,
     volume |-> SumOf(g, "volume"),
     amount |-> SumOf(g, "amount")]

\* sort_values("datetime") over the groups' dates.
RECURSIVE SortedDates(_)
SortedDates(D) ==
    IF D = {} THEN <<>>
    ELSE LET d == CHOOSE x \in D : \A y \in D : x <= y
         IN <<d>> \o SortedDates(D \ {d})

aggregate_minute_rows(rows) ==
    LET working == DropNaT(rows)
        dates == SortedDates({working[k].date : k \in 1..Len(working)})
    IN [k \in 1..Len(dates) |-> AggregateGroup(GroupOf(working, dates[k]), dates[k])]

AggregateCalled ==
    /\ ~agg.called
    /\ \E rows \in SeqsUpTo(MinuteRows, MaxRows) :
          agg' = [called |-> TRUE, rows |-> rows, daily |-> aggregate_minute_rows(rows)]
    /\ UNCHANGED besides_agg

NextAggregate == AggregateCalled

SpecAggregate == Init /\ [][NextAggregate]_vars

\* ------------------------------------------------------------------------
\* Scheduler properties
\* ------------------------------------------------------------------------
Ticked == lastTick.dt # NoDt

\* A task is due at a tick: hour and minute equal its time of day, its
\* frequency predicate holds, and it was not last triggered at this stamp.
DueAt(i, t) ==
    /\ t.dt.secs \div 3600 = tasks[i].time[1]
    /\ (t.dt.secs % 3600) \div 60 = tasks[i].time[2]
    /\ \/ tasks[i].freq = "daily"
       \/ tasks[i].freq = "weekly" /\ (6 + t.dt.date) % 7 = 0
       \/ tasks[i].freq = "monthly" /\ t.dt.date = 2
    /\ t.before[i] # t.dt

\* C1: after a tick at T every task invoked by it has last_trigger = T,
\* whether its callback returned or raised, and no task is invoked a second
\* time while current_dt keeps the value T.
C1_LastTriggerSetWhateverOutcome ==
    /\ Ticked => \A i \in lastTick.invoked : tasks[i].last_trigger = lastTick.dt
    /\ \A i \in 1..Len(tasks) : fires[i] <= 1

\* C2: a tick invokes a task's callback if and only if the hour and minute
\* of T equal the task's time of day, the frequency predicate holds (daily
\* always, weekly on a Monday, monthly on the 1st, nothing for any other
\* frequency) and the task's last_trigger differs from T.
C2_FiresIffDue ==
    Ticked => \A i \in 1..Len(tasks) : (i \in lastTick.invoked) <=> DueAt(i, lastTick)

C2_Witness ==
    /\ Ticked
    /\ \E i, j \in 1..Len(tasks) :
        /\ i \in lastTick.invoked /\ tasks[i].freq = "monthly"
        /\ j \notin lastTick.invoked /\ tasks[j].freq = "weekly"

\* C3: a task whose callback returns normally is invoked at most once while
\* current_dt keeps one value, however many ticks are made with that value.
C3_AtMostOncePerStamp ==
    \A i \in 1..Len(tasks) : ~tasks[i].raises => fires[i] <= 1

C3_Witness ==
    /\ ticksAtDt >= 2
    /\ \E i \in 1..Len(tasks) : ~tasks[i].raises /\ fires[i] = 1

\* The bars of the present date cross 09:30: the first is stamped at or
\* before it, the latest at or after it.
Crossed0930 ==
    api_frequency \notin MinuteFreqs \/ (bar.first <= T0930 /\ bar.secs >= T0930)

\* C4: at the end of a run whose last day is past warm-up and whose bars
\* cross 09:30, every daily task registered at 09:30 with a callback that
\* returns normally has fired exactly once on that day.
C4_DailyTaskOncePerDay ==
    (pc = "done" /\ bar.date >= user_start /\ Crossed0930)
        => \A i \in 1..Len(tasks) :
              (tasks[i].freq = "daily" /\ tasks[i].time = <<9, 30>> /\ ~tasks[i].raises)
                  => dayFires[i] = 1

\* C5: a raising callback is caught and logged, nothing propagates out of
\* the tick, and every task registered after the failing one that is due at
\* the stamp is still fired in the same tick.
C5_RaiseDoesNotAbortTick ==
    Ticked =>
        /\ ~lastTick.raised
        /\ lastTick.errors = Cardinality({i \in lastTick.invoked : tasks[i].raises})
        /\ Len(SelectSeq(log, LAMBDA e : e = "[Scheduler] Task error")) = lastTick.errors
        /\ \A i \in lastTick.invoked : tasks[i].raises =>
              \A j \in (i + 1)..Len(tasks) : DueAt(j, lastTick) => j \in lastTick.invoked

C5_Witness ==
    /\ Ticked
    /\ \E i, j \in lastTick.invoked : i < j /\ tasks[i].raises
    /\ "[Scheduler] Task error" \in {log[k] : k \in 1..Len(log)}

\* C6: every registered lifecycle callback is invoked at most once on a
\* date, and exactly once on the last date of a run when that date is past
\* warm-up.
C6_HookOncePerDay ==
    \A h \in {"before_trading_start", "after_trading_end"} :
        hooks[h] > 0 =>
            /\ hookCalls[h] <= 1
            /\ (pc = "done" /\ bar.date >= user_start) => hookCalls[h] = 1

\* ------------------------------------------------------------------------
\* Order engine properties
\* ------------------------------------------------------------------------
Intended == lastOrder.intent # "none"

\* The orders the latest intent submitted to the broker.
SubmittedAny(side) ==
    IF Intended
    THEN {lastOrder.order[k] : k \in {j \in 1..Len(lastOrder.order) : lastOrder.order[j].side = side}}
    ELSE {}

\* The orders among them that came from the jq_api intents.
Submitted(side) ==
    IF Intended /\ lastOrder.intent # "TradingAPI.order" THEN SubmittedAny(side) ELSE {}

\* Total minus the shares bought on the current simulated date, not below 0.
CloseableNow ==
    IF position - (IF current_dt.date \in DOMAIN daily_bought
                   THEN daily_bought[current_dt.date] ELSE 0) > 0
    THEN position - (IF current_dt.date \in DOMAIN daily_bought
                     THEN daily_bought[current_dt.date] ELSE 0)
    ELSE 0

\* C7: every buy an intent submits costs, commission included, no more than
\* the cash available at request time.
C7_BuyWithinCash ==
    \A o \in Submitted("BUY") :
        LET gross == o.size * lastOrder.price.exec_buy_price
            byRate == (gross * 3 + 9999) \div 10000
        IN gross + (IF byRate >= 500 THEN byRate ELSE 500) <= cash

\* C8: every sell an intent submits is for at most the closeable quantity at
\* request time, and none is submitted when that quantity is 0.
C8_SellWithinCloseable ==
    \A o \in Submitted("SELL") : o.size >= 1 /\ o.size <= CloseableNow

C8_Witness ==
    /\ \E o \in Submitted("SELL") : o.size = CloseableNow
    /\ CloseableNow < position
    /\ lastOrder.intent = "order_target"

\* The share count a sell request asks for.
RequestedShares ==
    IF lastOrder.intent = "order" THEN 0 - lastOrder.requested
    ELSE IF lastOrder.intent = "order_value"
    THEN (0 - lastOrder.requested) \div lastOrder.price.base_price
    ELSE position - lastOrder.requested

\* C9: a sell that asks for more than the closeable quantity and is clamped
\* to it leaves a log entry recording the clamp.
C9_ClampLogged ==
    \A o \in Submitted("SELL") :
        (lastOrder.intent \in {"order", "order_value", "order_target"}
            /\ RequestedShares > CloseableNow /\ o.size = CloseableNow)
        => \E k \in 1..Len(log) : log[k] = "[T+1_adjust] SELL clamp"

\* C10: every order an intent submits has a size that is a positive
\* multiple of the lot.
C10_LotMultiple ==
    \A o \in SubmittedAny("BUY") \cup SubmittedAny("SELL") : o.size > 0 /\ o.size % 100 = 0

\* ------------------------------------------------------------------------
\* Price limits
\* ------------------------------------------------------------------------
\* The share count the latest intent aims the position at, for the target
\* intents: floor(floor(value / price) / lot) * lot of the target value.
TargetShares ==
    IF lastOrder.intent = "order_target" THEN (lastOrder.requested \div 100) * 100
    ELSE IF lastOrder.intent = "order_target_value"
    THEN ((lastOrder.requested \div lastOrder.price.base_price) \div 100) * 100
    ELSE ((((lastOrder.cash + position * bar.close) * lastOrder.requested)
              \div (100 * lastOrder.price.base_price)) \div 100) * 100

\* The latest intent asked for a buy, or for a sell.
AskedSide ==
    IF lastOrder.intent \in {"order", "order_value"}
    THEN IF lastOrder.requested > 0 THEN "BUY"
         ELSE IF lastOrder.requested < 0 THEN "SELL" ELSE "NONE"
    ELSE IF TargetShares > position THEN "BUY"
    ELSE IF TargetShares < position THEN "SELL" ELSE "NONE"

AtUpLimit ==
    prev_close > 0 /\ lastOrder.price.exec_buy_price * 100 >= (prev_close * 110) - ((prev_close * 110) % 100)

AtDownLimit ==
    prev_close > 0 /\ lastOrder.price.exec_sell_price * 100 <= (prev_close * 90) - ((prev_close * 90) % 100)

BlockedRecord(side, status, price) ==
    [side |-> side, size |-> 0, price |-> price, value |-> 0, commission |-> 0,
     status |-> status]

\* C11: with a positive previous close, a buy at or above the up limit
\* submits nothing and appends exactly one BlockedLimitUp record of size 0,
\* value 0 and commission 0; a sell at or below the down limit submits
\* nothing and appends exactly one BlockedLimitDown record.
C11_LimitBlocks ==
    (Intended /\ lastOrder.intent # "TradingAPI.order") =>
        /\ (AskedSide = "BUY" /\ AtUpLimit) =>
              /\ lastOrder.order = <<>>
              /\ blocked_orders =
                     <<BlockedRecord("BUY", "BlockedLimitUp", lastOrder.price.exec_buy_price)>>
        /\ (AskedSide = "SELL" /\ AtDownLimit) =>
              /\ lastOrder.order = <<>>
              /\ blocked_orders =
                     <<BlockedRecord("SELL", "BlockedLimitDown", lastOrder.price.exec_sell_price)>>

C11_Witness ==
    /\ Intended
    /\ AskedSide = "SELL" /\ AtDownLimit /\ position > 0
    /\ Len(blocked_orders) = 1 /\ blocked_orders[1].status = "BlockedLimitDown"
    /\ lastOrder.intent = "order_target"

\* ------------------------------------------------------------------------
\* T+1 bookkeeping of the order engine
\* ------------------------------------------------------------------------
\* Shares bought by the fills of the bar's date.
BoughtThisDay == IF bar.date \in DOMAIN daily_bought THEN daily_bought[bar.date] ELSE 0

BoughtOnceThenRolled ==
    /\ Len(pos.hist) >= 1
    /\ pos.hist[1].op = "add_amount" /\ pos.hist[1].is_today
    /\ \A k \in 2..Len(pos.hist) : pos.hist[k].op = "on_new_day"

C14_CloseableWithinTotal ==
    /\ 0 <= pos.closeable_amount /\ pos.closeable_amount <= pos.total_amount
    /\ 0 <= position_snapshot.closeable
    /\ position_snapshot.closeable <= Max(0, position_snapshot.total)

\* ------------------------------------------------------------------------
\* Buy sizing by value
\* ------------------------------------------------------------------------
\* The lot counts an order_value buy may take: at most floor(value / base
\* price) shares, gross plus commission within the cash at request time.
QualifyingLots ==
    {n \in 1..((lastOrder.requested \div lastOrder.price.base_price) \div 100) :
        LET gross == n * 100 * lastOrder.price.exec_buy_price
            byRate == (gross * 3 + 9999) \div 10000
        IN gross + (IF byRate >= 500 THEN byRate ELSE 500) <= lastOrder.cash}

\* The latest intent is an order_value buy the limit check lets through.
ValueBuyAsked ==
    /\ lastOrder.intent = "order_value"
    /\ lastOrder.requested > 0
    /\ lastOrder.price.base_price > 0
    /\ ~AtUpLimit

\* C15: a positive order_value request submits the largest lot multiple that
\* is at most floor(value / sizing price) and whose gross plus commission
\* fits the available cash; when no positive multiple qualifies, no order is
\* submitted and no order or blocked-order event is recorded.
C15_LargestAffordableLots ==
    ValueBuyAsked =>
        IF QualifyingLots = {}
        THEN lastOrder.order = <<>> /\ blocked_orders = <<>>
        ELSE /\ blocked_orders = <<>>
             /\ Len(lastOrder.order) = 1
             /\ lastOrder.order[1].side = "BUY"
             /\ lastOrder.order[1].size % 100 = 0
             /\ lastOrder.order[1].size \div 100 \in QualifyingLots
             /\ \A m \in QualifyingLots : m * 100 <= lastOrder.order[1].size

\* Cash 100000.00, value 80000.00 at 10.00: 8000 shares.
C15_Witness ==
    /\ ValueBuyAsked
    /\ lastOrder.cash = 100000 * 100 /\ lastOrder.requested = 80000 * 100
    /\ lastOrder.price.base_price = 10 * 100
    /\ lastOrder.order = <<[side |-> "BUY", size |-> 8000]>>

\* ------------------------------------------------------------------------
\* Target intents
\* ------------------------------------------------------------------------
\* The latest intent is a target intent that got past the price context and
\* the limit check.
TargetAsked ==
    /\ lastOrder.intent \in {"order_target", "order_target_value", "order_target_percent"}
    /\ lastOrder.price.base_price > 0
    /\ ~(AskedSide = "BUY" /\ AtUpLimit)
    /\ ~(AskedSide = "SELL" /\ AtDownLimit)

\* Rounded target minus the total quantity held at request time.
TargetDelta == TargetShares - lastOrder.snapshot.total

\* The lot counts buy sizing may take for a buy of TargetDelta shares.
TargetQualifyingLots ==
    {n \in 1..(TargetDelta \div 100) :
        LET gross == n * 100 * lastOrder.price.exec_buy_price
            byRate == (gross * 3 + 9999) \div 10000
        IN gross + (IF byRate >= 500 THEN byRate ELSE 500) <= lastOrder.cash}

\* C16: a target intent rounds the target down to a lot multiple and takes
\* delta = rounded target - total; it places nothing when delta = 0, what buy
\* sizing gives for delta shares when delta > 0 (the largest lot multiple
\* the cash affords, nothing when none), and a sell of at most the
\* closeable quantity when delta < 0; order_target_value and
\* order_target_percent do the same with floor(floor(value / price) / lot) * lot.
C16_TargetDelegatesToSizing ==
    TargetAsked =>
        /\ TargetDelta = 0 => lastOrder.order = <<>>
        /\ TargetDelta > 0 =>
              IF TargetQualifyingLots = {} THEN lastOrder.order = <<>>
              ELSE \E n \in TargetQualifyingLots :
                      /\ \A m \in TargetQualifyingLots : m <= n
                      /\ lastOrder.order = <<[side |-> "BUY", size |-> n * 100]>>
        /\ TargetDelta < 0 =>
              IF lastOrder.snapshot.closeable <= 0 THEN lastOrder.order = <<>>
              ELSE /\ Len(lastOrder.order) = 1
                   /\ lastOrder.order[1].side = "SELL"
                   /\ lastOrder.order[1].size >= 1
                   /\ lastOrder.order[1].size <= lastOrder.snapshot.closeable

\* ------------------------------------------------------------------------
\* Exceptions inside an order intent
\* ------------------------------------------------------------------------
\* The latest intent met a base price that is not positive: its price
\* context raised. order_target_percent comes to the price context only
\* with a positive portfolio value.
PriceContextRaised ==
    /\ Intended
    /\ lastOrder.intent # "TradingAPI.order"
    /\ lastOrder.requested # 0
    /\ lastOrder.price.base_price <= 0
    /\ lastOrder.intent = "order_target_percent" => lastOrder.cash + position * bar.close > 0

\* Nothing was submitted or recorded and the ledger is as it was at the
\* request; the handler is where it was.
NothingPlaced ==
    /\ lastOrder.order = <<>>
    /\ pending = <<>>
    /\ blocked_orders = <<>>
    /\ cash = lastOrder.cash
    /\ position = lastOrder.snapshot.total
    /\ pc \in {"after_open", "bar_done"}

\* The error tag of each intent.
ErrorTag(intent) ==
    IF intent = "order" THEN "[order_error]"
    ELSE IF intent = "order_value" THEN "[order_value_error]"
    ELSE IF intent = "order_target" THEN "[order_target_error]"
    ELSE IF intent = "order_target_value" THEN "[order_target_value_error]"
    ELSE "[order_target_percent_error]"

\* The intent whose try block the price context is called in.
RaisedIn(intent) ==
    IF intent = "order_target_percent" THEN "order_target_value" ELSE intent

\* C17: an exception raised inside an order intent (here by the price
\* context, on a base price that is not positive) is caught: one log entry
\* carrying the tag of the intent the strategy called is appended, no order
\* is submitted and no ledger or blocked-order state changes.
C17_CaughtUnderCalledIntentTag ==
    PriceContextRaised =>
        /\ log = <<ErrorTag(lastOrder.intent)>>
        /\ NothingPlaced

\* C17 as the code has it: the log entry carries the tag of the intent in
\* whose body the exception was raised, which for order_target_percent is
\* order_target_value.
C17_CaughtUnderRaisingIntentTag ==
    PriceContextRaised =>
        /\ log = <<ErrorTag(RaisedIn(lastOrder.intent))>>
        /\ NothingPlaced

C17_Witness ==
    /\ PriceContextRaised
    /\ lastOrder.intent = "order_target"
    /\ log = <<"[order_target_error]">>
    /\ lastOrder.cash > 0

\* ------------------------------------------------------------------------
\* Dropped order requests
\* ------------------------------------------------------------------------
\* C18: an order_value buy that rounds to zero lots, or for which no
\* positive lot multiple fits the cash, submits nothing and leaves a log
\* entry recording the drop.
C18_DropLogged ==
    (ValueBuyAsked /\ QualifyingLots = {}) =>
        /\ lastOrder.order = <<>>
        /\ pending = <<>>
        /\ Len(log) >= 1

\* ------------------------------------------------------------------------
\* Execution prices
\* ------------------------------------------------------------------------
\* C19: the base price is the bar's open when fill_price is open and its
\* close when fill_price is close; the buy execution price is base * (1 + s/2)
\* rounded down to a multiple of the configured price_tick, the sell
\* execution price base * (1 - s/2) rounded up to one.
C19_ExecPricesOnTick ==
    quote.ctx.called =>
        LET c == quote.ctx
            tick == c.asked.price_tick
            s == c.slippage_perc
        IN /\ c.base_price = IF c.fill_price = "close" THEN c.asked.close ELSE c.asked.open
           /\ c.exec_buy_price = ((c.base_price * (20000 + s)) \div (20000 * tick)) * tick
           /\ c.exec_sell_price =
                  ((c.base_price * (20000 - s) + 20000 * tick - 1) \div (20000 * tick)) * tick

\* ------------------------------------------------------------------------
\* get_current_data and the CurrentDataProxy it returns
\* ------------------------------------------------------------------------
\* The last simulated day a bar sets current_dt to.
LastSnapDay == MaxDay + 1

\* get_current_data(): when the cache's __marker__ differs from current_dt
\* the marker is set and the snapshots are dropped; the proxy returned wraps
\* the state and the cache dict itself.
get_current_data(s) ==
    [s EXCEPT !.marker = s.current_dt,
              !.snapshots = IF s.marker # s.current_dt THEN NoSnapshots ELSE @,
              !.proxy = TRUE,
              !.op = "get_current_data"]

\* build_snapshot_for_security(state, key): the last row at or before
\* current_dt, which is the bar of current_dt.
build_snapshot_for_security(s, key) == s.current_dt

\* CurrentDataProxy.__getitem__(security): the snapshot in the cache's
\* __snapshots__ if there is one, else one built now and stored.
CurrentDataProxy_getitem(s, key) ==
    LET snapshot == IF s.snapshots[key] # NoDate THEN s.snapshots[key]
                    ELSE build_snapshot_for_security(s, key)
    IN [s EXCEPT !.snapshots[key] = snapshot,
                 !.op = "getitem",
                 !.got = [security |-> key, built_at |-> snapshot, asked_at |-> s.current_dt]]

\* next_open / next of a bar: jq_state["current_dt"] moves to the bar.
SetCurrentDt ==
    /\ snap.current_dt < LastSnapDay
    /\ snap' = [snap EXCEPT !.current_dt = IF @ = NoDate THEN 1 ELSE @ + 1, !.op = "bar"]
    /\ UNCHANGED besides_snap

\* User code calls get_current_data() and keeps the proxy.
GetCurrentData ==
    /\ snap.current_dt # NoDate
    /\ snap' = get_current_data(snap)
    /\ UNCHANGED besides_snap

\* User code indexes the proxy it holds.
ProxyGetItem ==
    /\ snap.current_dt # NoDate
    /\ snap.proxy
    /\ \E key \in Symbols : snap' = CurrentDataProxy_getitem(snap, key)
    /\ UNCHANGED besides_snap

NextSnap ==
    \/ SetCurrentDt
    \/ GetCurrentData
    \/ ProxyGetItem

SpecSnap == Init /\ [][NextSnap]_vars

\* ------------------------------------------------------------------------
\* Cache lookups
\* ------------------------------------------------------------------------
\* The latest operation on a persisting cache was a load.
Loaded == cache.persist /\ cache.op = "load"

\* Both files of the key were stored when load looked.
EntryStored == cache.at_load.data # "absent" /\ cache.at_load.meta # "absent"

\* The recorded source_mtime is within 1e-6 of the mtime load was given.
MtimeMatches ==
    /\ cache.asked # NoMtime
    /\ cache.at_load.cached_mtime # NoMtime
    /\ cache.asked - cache.at_load.cached_mtime <= 1
    /\ cache.at_load.cached_mtime - cache.asked <= 1

\* C20: with persistence enabled a load ends in exactly one of hit (payload
\* and metadata stored, recorded source_mtime within 1e-6 of mtime), miss
\* (payload or metadata absent) and mismatch (entry stored, mtimes differ by
\* more than 1e-6), and it returns a stored frame exactly when it ends in hit.
C20_ThreeOutcomes ==
    Loaded =>
        /\ cache.last_status \in {"hit", "miss", "mismatch"}
        /\ cache.last_status = "hit" <=> (EntryStored /\ MtimeMatches)
        /\ cache.last_status = "miss" <=> ~EntryStored
        /\ cache.last_status = "mismatch" <=> (EntryStored /\ ~MtimeMatches)
        /\ cache.returned <=> cache.last_status = "hit"

\* The latest operation is a load, with persistence enabled and the mtime of
\* the latest successful save, and nothing but loads came after that save.
LoadedAfterSave ==
    /\ cache.persist
    /\ cache.op = "load"
    /\ cache.kept.valid
    /\ cache.asked = cache.kept.mtime

Eligible == {s \in Symbols : prep.history[s] = "minutes"}

\* The latest operation was a run's _prepare_minute_cache over a history
\* map that is not empty.
Prepared == prep.op = "prepare" /\ \E s \in Symbols : prep.history[s] # "none"

\* C22: with persistence disabled every load returns nothing with status
\* disabled, save leaves the stored files as they were, and
\* _prepare_minute_cache aggregates every eligible symbol into
\* minute_daily_cache, counting one build per symbol, no save and no error.
C22_DisabledStillAggregates ==
    (Prepared /\ ~prep.persist) =>
        /\ ~prep.raised
        /\ prep.store = prep.before
        /\ \A s \in Eligible :
              /\ prep.records[s] = [load_status |-> "disabled", save_status |-> "disabled"]
              /\ prep.minute_cache[s] = aggregate_minute_dataframe(prep.history[s])
              /\ prep.minute_cache[s] # NoFrame
        /\ \A s \in Symbols \ Eligible :
              prep.records[s] = NoRecord /\ prep.minute_cache[s] = NoFrame
        /\ prep.metrics = [NoMetrics EXCEPT !.builds = Cardinality(Eligible)]
        /\ prep.diagnostics = [written |-> TRUE, errors |-> 0, anomalies |-> {}]

\* Two eligible symbols over a directory holding an earlier run's entry
\* for one of them, its metadata since replaced.
C22_Witness ==
    /\ Prepared /\ ~prep.persist
    /\ Eligible = Symbols
    /\ prep.metrics.builds = 2
    /\ prep.before["000001"].data = "ok"
    /\ prep.before["000001"].meta = "misshapen"

\* Symbol s is eligible and load found its entry damaged: both files
\* stored and the metadata unreadable, not JSON or JSON of another shape,
\* or the payload unreadable when load came to read it.
DamagedEntry(s) ==
    /\ s \in Eligible
    /\ prep.before[s].data # "absent" /\ prep.before[s].meta # "absent"
    /\ \/ prep.before[s].meta \in {"corrupt", "misshapen"}
       \/ prep.records[s].load_status = "load_error"

\* C23: corrupt stored metadata (unreadable, no JSON, or JSON of an
\* unexpected shape) and an unreadable payload never raise out of load and
\* never abort the run: the symbol is aggregated again and the error is
\* recorded in the run's cache diagnostics.
C23_CorruptEntryIsMiss ==
    (Prepared /\ prep.persist) =>
        /\ ~prep.raised
        /\ \A s \in Symbols :
              DamagedEntry(s) =>
                  /\ prep.records[s].load_status \in {"meta_error", "load_error"}
                  /\ prep.minute_cache[s] = aggregate_minute_dataframe(prep.history[s])
                  /\ prep.metrics.builds >= 1
                  /\ prep.diagnostics.written
                  /\ s \in prep.diagnostics.anomalies
                  /\ prep.diagnostics.errors >= 1

\* ------------------------------------------------------------------------
\* Concurrent saves of one key
\* ------------------------------------------------------------------------
\* C24: when two runs save the same key at the same time, the payload and
\* the metadata stored after both saves come from the same writer, and no
\* load among the saves reports a hit that pairs one writer's payload with
\* another writer's, or the earlier entry's, metadata.
C24_LastWriterWins ==
    /\ (\A r \in Runs : race.runs[r].pc = "done") => race.payload = race.meta.by
    /\ \A r \in Runs :
          race.runs[r].load_status = "hit" => race.runs[r].got = race.runs[r].meta_read

\* ------------------------------------------------------------------------
\* Pipeline stages
\* ------------------------------------------------------------------------
\* The stages entered so far are the first stages of the pipeline's order,
\* each once.
InStageOrder ==
    /\ Len(backtest.trace) <= Len(Stages)
    /\ \A k \in 1..Len(backtest.trace) : backtest.trace[k] = Stages[k]

\* C25: a pipeline run executes load_data, configure_execution,
\* execute_strategy and collect_results each exactly once and in that
\* order; collect_results runs only after execute_strategy has set the
\* strategy instance; an exception in a stage keeps every later stage from
\* running and leaves the run failed.
C25_StagesOnceInOrder ==
    /\ InStageOrder
    /\ backtest.result = FullResult => backtest.trace = Stages
    /\ (backtest.pc = "collect_results" \/ Len(backtest.trace) = 4) => backtest.strat
    /\ backtest.raised_in # "none" =>
          /\ backtest.pc = "returned"
          /\ backtest.result = FailedResult
          /\ backtest.raised_in # "compile" =>
                /\ backtest.trace # <<>>
                /\ backtest.trace[Len(backtest.trace)] = backtest.raised_in
          /\ backtest.raised_in = "compile" => backtest.trace = <<>>

\* A whole minute run.
C25_Witness ==
    /\ backtest.pc = "returned"
    /\ backtest.frequency = "1min"
    /\ backtest.trace = Stages
    /\ backtest.strat
    /\ backtest.result = FullResult

\* C26: run_backtest never raises: an exception from compilation, data
\* loading (no symbol, no data in range), configuration, execution or
\* result collection gives the failed result (metrics {'error': True},
\* empty curves, trades, orders and blocked orders, the traceback in log),
\* so every call ends with the full result or with the failed one.
C26_AlwaysReturnsResult ==
    /\ ~backtest.escaped
    /\ backtest.pc # "returned" => backtest.result = NoResult /\ backtest.raised_in = "none"
    /\ backtest.pc = "returned" =>
          IF backtest.raised_in = "none"
          THEN backtest.result = FullResult
          ELSE /\ backtest.result.metrics = "error"
               /\ backtest.result.curves = "empty"
               /\ backtest.result.trades = "empty"
               /\ backtest.result.orders = "empty"
               /\ backtest.result.blocked_orders = "empty"
               /\ backtest.result.log = "traceback"

\* Two symbols asked for, one of them without data in the range.
C26_Witness ==
    /\ backtest.pc = "returned"
    /\ backtest.symbol = "000001,600000"
    /\ backtest.raised_in = "load_data" /\ backtest.error = "no_data"
    /\ backtest.result = FailedResult

\* ------------------------------------------------------------------------
\* Warm-up lookback
\* ------------------------------------------------------------------------
\* C27: with history_lookback_days set to a non-negative number,
\* compute_lookback_days returns int of it for every frequency and
\* pipeline, no frequency default and no auto-expansion applied; with it
\* not set, the lookback before auto-expansion is 250 for daily and 10 for
\* minute frequency (the per-frequency default options left alone).
C27_ConfiguredLookbackVerbatim ==
    lookback.called =>
        /\ (lookback.history_lookback_days.kind = "number"
                /\ lookback.history_lookback_days.tenths >= 0) =>
              /\ lookback.user_set
              /\ lookback.returned = lookback.history_lookback_days.tenths \div 10
              /\ lookback.adjusted = lookback.returned
        /\ (~lookback.user_set /\ lookback.frequency = "daily"
                /\ lookback.daily_default_lookback_days = NoOption) =>
              lookback.adjusted = 250
        /\ (~lookback.user_set /\ lookback.frequency = "1min"
                /\ lookback.minute_default_lookback_days = NoOption) =>
              lookback.adjusted = 10

\* history_lookback_days = 2.7 on a minute run whose code names the
\* periods 20 and 9999, auto-preload on: 2 is returned.
C27_Witness ==
    /\ lookback.called
    /\ lookback.history_lookback_days = [kind |-> "number", tenths |-> 27]
    /\ lookback.frequency = "1min"
    /\ lookback.jq_auto_history_preload
    /\ lookback.periods = {20, 9999}
    /\ lookback.returned = 2

\* The detected periods that count.
CountedPeriods == {p \in lookback.periods : p >= 3}

\* 3 x transform(largest counted period), at most 600.
AutoLookback ==
    LET largest == CHOOSE p \in CountedPeriods : \A q \in CountedPeriods : q <= p
        tripled == 3 * transform_period_for_frequency(lookback, largest)
    IN IF tripled < 600 THEN tripled ELSE 600

\* C28: with no lookback configured and auto-preload on, the lookback is
\* max(default, min(3 x transform(largest detected period >= 3), 600)): it
\* is never below the default, never above max(default, 600), periods below
\* 3 are ignored, and it is never negative.
C28_AutoExpandBounded ==
    (lookback.called /\ ~lookback.user_set /\ lookback.jq_auto_history_preload) =>
        /\ lookback.returned =
              IF CountedPeriods = {} THEN lookback.adjusted
              ELSE Max(lookback.adjusted, AutoLookback)
        /\ lookback.returned >= lookback.adjusted
        /\ lookback.returned <= Max(lookback.adjusted, 600)
        /\ lookback.returned >= 0

\* A daily run whose code names the periods 20 and 9999: 600.
C28_Witness ==
    /\ lookback.called /\ ~lookback.user_set /\ lookback.jq_auto_history_preload
    /\ lookback.frequency = "daily"
    /\ lookback.periods = {20, 9999}
    /\ lookback.adjusted = 250
    /\ lookback.returned = 600

\* The bar being handled lies before the user's start date.
WarmupBar == pc \in {"after_open", "bar_done"} /\ bar.date < user_start

\* C29: on every bar dated before the user's start date the engine sets
\* in_warmup and invokes no handle_data, no scheduled task and no lifecycle
\* hook; an order intent called while in_warmup submits no order and appends
\* no blocked order, and record() called while in_warmup appends no record.
C29_WarmupSkipsUserCode ==
    /\ WarmupBar =>
          /\ in_warmup
          /\ handleCalls = 0
          /\ ~inHandle
          /\ hookCalls = NoHookCalls
          /\ dayFires = Zeros(Len(tasks))
          /\ lastTick = NoTick
    /\ (in_warmup /\ lastOrder.intent # "none") =>
          /\ lastOrder.order = <<>>
          /\ pending = <<>>
          /\ blocked_orders = <<>>
    /\ (recorded.called /\ recorded.in_warmup) => recorded.appended = <<>>

\* A warm-up bar handled to its end by a strategy with a timed task and both
\* lifecycle hooks registered, on which order_value and record were called.
C29_Witness ==
    /\ WarmupBar
    /\ pc = "bar_done"
    /\ Len(tasks) > 0
    /\ hooks.before_trading_start > 0
    /\ hooks.after_trading_end > 0
    /\ lastOrder.intent = "order_value"
    /\ recorded.called
    /\ recorded.in_warmup

\* The bar being handled is on or after the user's start date.
LiveBar == bar.date # NoDate /\ bar.date >= user_start

\* C30: on every bar on or after the user's start date handle_data is
\* invoked exactly once: by next_open when fill_price is open, by next when
\* fill_price is close, and never by both for the same bar, the first such
\* bar and a fill_price set during initialize included.
C30_HandleOncePerBar ==
    /\ (pc = "after_open" /\ LiveBar) =>
          handleCalls = (IF fill_price = "open" THEN 1 ELSE 0)
    /\ (pc = "bar_done" /\ LiveBar) =>
          /\ handleCalls = 1
          /\ fill_price = "open" => handled_today
          /\ fill_price = "close" => ~handled_today

\* C31: an exception raised by handle_data, before_trading_start,
\* after_trading_end or a scheduled task is caught and logged, the callbacks
\* after it are still called, and the run goes on through the following
\* bars and ends with a result, never with the exception.
C31_UserErrorsCaught ==
    /\ userrun.pc # "raised"
    /\ Len(userrun.log) = Len(userrun.raised)
    /\ \A k \in 1..Len(userrun.raised) :
          userrun.log[k] = ErrorLine(userrun.strategy, userrun.raised[k])
    /\ userrun.pc = "returned" =>
          /\ userrun.result = "result"
          /\ userrun.bars = MaxDay

\* C32: two runs in one process share no mutable state: in its task and hook
\* registrations, options, log, blocked orders, today-bought map and g a
\* run finds only what it wrote itself, and everything it wrote is still
\* there, whatever the other run does.
C32_RunsShareNothing ==
    \A r \in Runs : \A f \in StateFields :
        shared.runs[r].engine # "none" =>
            /\ View(r, f) \subseteq {r}
            /\ f \in shared.runs[r].wrote => r \in View(r, f)

\* C33: after each processed bar of date D the today-bought map holds no
\* entry dated more than 2 calendar days before D, with fill_price open as
\* with fill_price close.
C33_BoughtMapPruned ==
    pc = "bar_done" => \A k \in DOMAIN daily_bought : k >= bar.date - 2

\* The rows of date d that carry a datetime.
RowsOn(d) == { k \in 1..Len(agg.rows) : agg.rows[k].date = d }

\* C34: aggregate_minute_dataframe returns one daily bar per calendar date
\* present in the minute rows, ordered by date, with open that of the day's
\* earliest minute row, close that of the day's latest minute row, high the
\* maximum high, low the minimum low, and volume and amount the sums,
\* whatever the order of the input rows.
C34_DailyBarsFromMinuteRows ==
    agg.called =>
        LET dates == {agg.rows[k].date : k \in 1..Len(agg.rows)} \ {NoDate}
        IN /\ Len(agg.daily) = Cardinality(dates)
           /\ {agg.daily[i].date : i \in 1..Len(agg.daily)} = dates
           /\ \A i \in 1..Len(agg.daily) : \A j \in 1..Len(agg.daily) :
                 i < j => agg.daily[i].date < agg.daily[j].date
           /\ \A i \in 1..Len(agg.daily) :
                 LET bar_i == agg.daily[i]
                     on == RowsOn(bar_i.date)
                 IN /\ \E k \in on :
                          /\ \A m \in on : agg.rows[k].minute <= agg.rows[m].minute
                          /\ bar_i.open = agg.rows[k].open
                    /\ \E k \in on :
                          /\ \A m \in on : agg.rows[k].minute >= agg.rows[m].minute
                          /\ bar_i.close = agg.rows[k].close
                    /\ \A k \in on : agg.rows[k].high <= bar_i.high
                    /\ \E k \in on : agg.rows[k].high = bar_i.high
                    /\ \A k \in on : agg.rows[k].low >= bar_i.low
                    /\ \E k \in on : agg.rows[k].low = bar_i.low
                    /\ bar_i.volume = SumOf(GroupOf(agg.rows, bar_i.date), "volume")
                    /\ bar_i.amount = SumOf(GroupOf(agg.rows, bar_i.date), "amount")

\* The symbols with a record in the metrics of the latest call.
Recorded == {s \in Symbols : prep.records[s] # NoRecord}

\* C35: after _prepare_minute_cache the summary agrees with the lookups:
\* each processed symbol has its one record, hits + builds = total_loads,
\* builds counts the lookups that did not hit, a hit neither rebuilds nor
\* saves, saves <= builds, and the reported error count is the number of
\* lookups with a load error, a persist error or an empty aggregation.
C35_SummaryMatchesLookups ==
    (Prepared /\ ~prep.raised) =>
        /\ Recorded = Eligible
        /\ prep.metrics.hits + prep.metrics.builds = Cardinality(Recorded)
        /\ prep.metrics.hits = Cardinality({s \in Recorded : prep.records[s].load_status = "hit"})
        /\ prep.metrics.builds =
              Cardinality({s \in Recorded : prep.records[s].load_status # "hit"})
        /\ \A s \in Recorded :
              prep.records[s].load_status = "hit" =>
                  /\ prep.records[s].save_status = "none"
                  /\ prep.store[s] = prep.before[s]
        /\ prep.metrics.saves <= prep.metrics.builds
        /\ prep.metrics.saves =
              Cardinality({s \in Recorded : prep.records[s].save_status = "saved"})
        /\ prep.diagnostics.written
        /\ prep.diagnostics.errors =
              Cardinality({s \in Recorded :
                              \/ prep.records[s].load_status \in {"meta_error", "load_error"}
                              \/ prep.records[s].save_status \in {"persist_error", "empty"}})

\* One symbol served from the cache and the other, its payload unreadable,
\* built again and not saved: two lookups, one hit, one build, one lookup in
\* error with both a load error and a persist error.
C35_Witness ==
    /\ Prepared /\ ~prep.raised
    /\ Recorded = Symbols
    /\ prep.metrics.hits = 1
    /\ prep.metrics.builds = 1
    /\ prep.metrics.saves = 0
    /\ prep.metrics.errors = 2
    /\ prep.diagnostics.errors = 1
    /\ \E s \in Symbols :
          prep.records[s] = [load_status |-> "load_error", save_status |-> "persist_error"]

\* The lines of the latest handler hold this many copies of `line`.
Copies(line) == Cardinality({k \in 1..Len(log) : log[k] = line})

\* C36: over a run with non-decreasing bar dates a warm-up entry line is
\* logged exactly when in_warmup goes from false to true and an exit line
\* exactly when it goes from true to false, one line per change; in_warmup
\* once left is never entered again, so each line is logged at most once,
\* the exit after the entry, and never by both handlers of one bar.
C36_WarmupTransitionsLogged ==
    /\ [][/\ Copies("[warmup] enter_warmup")' = (IF ~in_warmup /\ in_warmup' THEN 1 ELSE 0)
          /\ Copies("[warmup] leave_warmup")' = (IF in_warmup /\ ~in_warmup' THEN 1 ELSE 0)]_vars
    /\ [](in_warmup => [](~in_warmup => []~in_warmup))

\* The handler of the first bar on or after the start date has just logged
\* the exit, the bars before it having been warm-up bars.
C36_Witness ==
    /\ pc \in {"after_open", "bar_done"}
    /\ Copies("[warmup] leave_warmup") = 1
    /\ ~in_warmup
    /\ bar.date >= user_start

\* C37: a sell request never submits more shares than were asked for:
\* order(sec, -q) submits at most q shares and order_value(sec, -v) at most
\* v / sizing price shares, requests under one lot included, whatever the
\* closeable quantity is.
C37_SellWithinRequest ==
    \A o \in Submitted("SELL") :
        /\ (lastOrder.intent = "order" /\ lastOrder.requested < 0) =>
              o.size <= 0 - lastOrder.requested
        /\ (lastOrder.intent = "order_value" /\ lastOrder.requested < 0) =>
              o.size * lastOrder.price.base_price <= 0 - lastOrder.requested

\* C38: on every trading day past the warm-up, with fill_price open as with
\* fill_price close, before_trading_start runs before that day's scheduled
\* tasks and handle_data, and after_trading_end runs only after that day's
\* handle_data has run.
C38_HooksAroundHandle ==
    \A i \in 1..Len(userrun.invoked) :
        LET call == userrun.invoked[i]
            earlier == {userrun.invoked[j].callback :
                           j \in {k \in 1..(i - 1) : userrun.invoked[k].bar = call.bar}}
        IN /\ call.callback = "before_trading_start" =>
                 earlier \cap {"scheduled_task", "handle_data"} = {}
           /\ call.callback = "after_trading_end" => "handle_data" \in earlier

\* C39: load reports a hit only when the recorded source mtime and the live
\* source mtime are both known and within 1e-6 of each other; a stored entry
\* is never served when the live mtime is unavailable or when the entry was
\* saved without a source mtime.  A load that raises reports nothing.
C39_HitNeedsKnownMtimes ==
    (cache.op = "load" /\ ~cache.raised /\ (cache.last_status = "hit" \/ cache.returned)) =>
        MtimeMatches

\* C40: a snapshot obtained from get_current_data()[sec] reflects the bar at
\* the current simulated time: one memoized at an earlier current_dt is never
\* returned after current_dt has advanced, also through a CurrentDataProxy
\* obtained on an earlier bar and kept.
C40_SnapshotIsCurrent ==
    snap.op = "getitem" => snap.got.built_at = snap.current_dt

====
